---- MODULE Spec2Model ----
(***************************************************************************)
(* Result lifecycle of a tournament pairing (claim / confirm / dispute /   *)
(* cancel / no-show / direct update / game-URL submission / deadline       *)
(* processing / auto-detection / administrative override), modelled from   *)
(* app/routers/pairings.py, app/models/pairing.py and                      *)
(* app/services/tournament_automation.py.                                  *)
(*                                                                         *)
(* The model observes one pairing of round 1 of a three-player tournament  *)
(* (white p1 against black p2, or the bye of p3) together with the roster  *)
(* entries of the tournament.  Time is counted in ticks of one minute.     *)
(* Scores are counted in half points (1.0 is 2, 0.5 is 1).                 *)
(* Columns that no handler reads and no property names (board number,      *)
(* game URL and id, notification flags, played_at, created_at) are left    *)
(* out of the pairing record.                                              *)
(***************************************************************************)
EXTENDS Integers, FiniteSets, Sequences, TLC

VARIABLES now, tournament, pairing, roster

vars == <<now, tournament, pairing, roster>>

\* ---------------------------------------------------------------- bounds
MaxTime == 2
DeadlineAt == 1
MaxGames == 2

\* ------------------------------------------------------ program constants
CancelMinutes == 2
ConfirmationMinutes == 10
WinPoints == 2
DrawPoints == 1

\* ------------------------------------------------------------ value sets
NoPlayer == "none"
NoResult == "none"
NoReason == "none"
NoTime == -1

Players == {"p1", "p2", "p3"}
Admin == "adm"
Actors == Players \cup {Admin}
Reasons == {"r1"}

PENDING == "pending"
WHITE_WINS == "white_wins"
BLACK_WINS == "black_wins"
DRAW == "draw"
WHITE_FORFEIT == "white_forfeit"
BLACK_FORFEIT == "black_forfeit"
DOUBLE_FORFEIT == "double_forfeit"
BYE == "bye"

GameResult ==
    {PENDING, WHITE_WINS, BLACK_WINS, DRAW, WHITE_FORFEIT, BLACK_FORFEIT,
     DOUBLE_FORFEIT, BYE}

PlayedResults == {WHITE_WINS, BLACK_WINS, DRAW}

is_admin(actor) == actor = Admin

\* ------------------------------------------------------- Pairing properties
is_bye(p) ==
    \/ p.result = BYE
    \/ p.white_player_id = NoPlayer
    \/ p.black_player_id = NoPlayer

\* A pending-claim test that does not look at the dispute flag.
has_pending_claim_ignoring_dispute(p) ==
    /\ p.claimed_result # NoResult
    /\ p.result = PENDING
    /\ p.confirmed_at = NoTime

has_pending_claim(p) ==
    /\ p.claimed_result # NoResult
    /\ p.result = PENDING
    /\ ~p.is_disputed
    /\ p.confirmed_at = NoTime

\* A cancel window that still admits the instant it closes.
can_cancel_claim_inclusive(p, t) ==
    IF p.claimed_at = NoTime THEN FALSE
    ELSE t <= p.claimed_at + CancelMinutes

can_cancel_claim(p, t) ==
    IF p.claimed_at = NoTime THEN FALSE
    ELSE t < p.claimed_at + CancelMinutes

\* ------------------------------------------------------------ score update
\* One roster entry with the given increments added.
credit(tp, points, w, d, l, gw, gb) ==
    [tp EXCEPT !.score = @ + points, !.wins = @ + w, !.draws = @ + d,
               !.losses = @ + l, !.games_as_white = @ + gw,
               !.games_as_black = @ + gb]

\* The roster with the entries of the pairing's white and black players
\* (when the pairing has them) replaced by wtp and btp.
with_entries(r, p, wtp, btp) ==
    [pl \in DOMAIN r |->
        IF pl = p.white_player_id THEN wtp
        ELSE IF pl = p.black_player_id THEN btp
        ELSE r[pl]]

\* _update_player_scores of the router: dispatch on the pairing's result.
router_update_player_scores(r, p) ==
    IF is_bye(p) THEN r
    ELSE
      LET white_tp == r[p.white_player_id]
          black_tp == r[p.black_player_id]
      IN  CASE p.result = WHITE_WINS ->
                 with_entries(r, p, credit(white_tp, WinPoints, 1, 0, 0, 1, 0),
                                    credit(black_tp, 0, 0, 0, 1, 0, 1))
            [] p.result = BLACK_WINS ->
                 with_entries(r, p, credit(white_tp, 0, 0, 0, 1, 1, 0),
                                    credit(black_tp, WinPoints, 1, 0, 0, 0, 1))
            [] p.result = DRAW ->
                 with_entries(r, p, credit(white_tp, DrawPoints, 0, 1, 0, 1, 0),
                                    credit(black_tp, DrawPoints, 0, 1, 0, 0, 1))
            [] p.result = WHITE_FORFEIT ->
                 with_entries(r, p, credit(white_tp, 0, 0, 0, 1, 0, 0),
                                    credit(black_tp, WinPoints, 1, 0, 0, 0, 0))
            [] p.result = BLACK_FORFEIT ->
                 with_entries(r, p, credit(white_tp, WinPoints, 1, 0, 0, 0, 0),
                                    credit(black_tp, 0, 0, 0, 1, 0, 0))
            [] p.result = DOUBLE_FORFEIT ->
                 with_entries(r, p, credit(white_tp, 0, 0, 0, 1, 0, 0),
                                    credit(black_tp, 0, 0, 0, 1, 0, 0))
            [] OTHER -> r

\* An automation update that scores a draw as a win for white.
update_player_scores_draw_as_win(r, p) ==
    IF p.result = DRAW
    THEN router_update_player_scores(r, [p EXCEPT !.result = WHITE_WINS])
    ELSE router_update_player_scores(r, p)

\* update_player_scores of the automation service.
update_player_scores(r, p) ==
    IF is_bye(p) THEN r
    ELSE
      LET white_tp == r[p.white_player_id]
          black_tp == r[p.black_player_id]
      IN  CASE p.result = WHITE_WINS ->
                 with_entries(r, p, credit(white_tp, WinPoints, 1, 0, 0, 1, 0),
                                    credit(black_tp, 0, 0, 0, 1, 0, 1))
            [] p.result = BLACK_WINS ->
                 with_entries(r, p, credit(white_tp, 0, 0, 0, 1, 1, 0),
                                    credit(black_tp, WinPoints, 1, 0, 0, 0, 1))
            [] p.result = DRAW ->
                 with_entries(r, p, credit(white_tp, DrawPoints, 0, 1, 0, 1, 0),
                                    credit(black_tp, DrawPoints, 0, 1, 0, 0, 1))
            [] p.result = WHITE_FORFEIT ->
                 with_entries(r, p, credit(white_tp, 0, 0, 0, 1, 0, 0),
                                    credit(black_tp, WinPoints, 1, 0, 0, 0, 0))
            [] p.result = BLACK_FORFEIT ->
                 with_entries(r, p, credit(white_tp, WinPoints, 1, 0, 0, 0, 0),
                                    credit(black_tp, 0, 0, 0, 1, 0, 0))
            [] p.result = DOUBLE_FORFEIT ->
                 with_entries(r, p, credit(white_tp, 0, 0, 0, 1, 0, 0),
                                    credit(black_tp, 0, 0, 0, 1, 0, 0))
            [] OTHER -> r

\* Games recorded on a roster entry.
games(tp) == tp.wins + tp.draws + tp.losses

\* The counters stay within the model's bound.
within_bound(r) == \A pl \in DOMAIN r : games(r[pl]) <= MaxGames

is_participant(p, actor) ==
    actor = p.white_player_id \/ actor = p.black_player_id

\* ------------------------------------------------------------ claim_result
\* A claim check that does not ask whether a result is already recorded.
claim_result_status_any_result(t, p, actor, res) ==
    IF t.is_online THEN "400 online tournament"
    ELSE IF t.status # "active" THEN "400 tournament not active"
    ELSE IF ~is_participant(p, actor) THEN "403 not a player in this pairing"
    ELSE IF has_pending_claim(p) THEN "400 claim already pending"
    ELSE IF res \notin PlayedResults THEN "400 invalid result"
    ELSE "ok"

claim_result_status(t, p, actor, res) ==
    IF t.is_online THEN "400 online tournament"
    ELSE IF t.status # "active" THEN "400 tournament not active"
    ELSE IF ~is_participant(p, actor) THEN "403 not a player in this pairing"
    ELSE IF p.result # PENDING THEN "400 result already recorded"
    ELSE IF has_pending_claim(p) THEN "400 claim already pending"
    ELSE IF res \notin PlayedResults THEN "400 invalid result"
    ELSE "ok"

claim_result_set(t, p, actor, res, time) ==
    [p EXCEPT !.claimed_result = res,
              !.claimed_by = actor,
              !.claimed_at = time,
              !.confirmation_deadline = time + t.result_confirmation_minutes]

claim_result(actor, res) ==
    LET st == claim_result_status(tournament, pairing, actor, res) IN
    /\ pairing' = IF st = "ok"
                  THEN claim_result_set(tournament, pairing, actor, res, now)
                  ELSE pairing
    /\ UNCHANGED <<now, tournament, roster>>

\* ---------------------------------------------------------- confirm_result
\* A confirm that does not check who made the claim.
confirm_result_status_any_player(p, actor) ==
    IF ~has_pending_claim(p) THEN "400 no pending claim"
    ELSE IF ~is_participant(p, actor) THEN "403 not a player in this pairing"
    ELSE "ok"

confirm_result_status(p, actor) ==
    IF ~has_pending_claim(p) THEN "400 no pending claim"
    ELSE IF ~is_participant(p, actor) THEN "403 not a player in this pairing"
    ELSE IF actor = p.claimed_by THEN "400 cannot confirm own claim"
    ELSE "ok"

\* A confirm that records the claimer as the confirmer.
confirm_result_set_claimer(p, actor, time) ==
    [p EXCEPT !.result = p.claimed_result,
              !.confirmed_by = p.claimed_by,
              !.confirmed_at = time]

confirm_result_set(p, actor, time) ==
    [p EXCEPT !.result = p.claimed_result,
              !.confirmed_by = actor,
              !.confirmed_at = time]

confirm_result(actor) ==
    LET st == confirm_result_status(pairing, actor)
        confirmed == confirm_result_set(pairing, actor, now)
    IN
    /\ pairing' = IF st = "ok" THEN confirmed ELSE pairing
    /\ roster' = IF st = "ok"
                 THEN router_update_player_scores(roster, confirmed)
                 ELSE roster
    /\ UNCHANGED <<now, tournament>>

\* ---------------------------------------------------------- dispute_result
dispute_result_status(p, actor) ==
    IF ~has_pending_claim(p) THEN "400 no pending claim"
    ELSE IF ~is_participant(p, actor) THEN "403 not a player in this pairing"
    ELSE IF actor = p.claimed_by THEN "400 cannot dispute own claim"
    ELSE "ok"

\* A dispute that also withdraws the claim.
dispute_result_set_clearing(p, reason) ==
    [p EXCEPT !.is_disputed = TRUE, !.dispute_reason = reason,
              !.claimed_result = NoResult, !.claimed_by = NoPlayer]

dispute_result_set(p, reason) ==
    [p EXCEPT !.is_disputed = TRUE, !.dispute_reason = reason]

dispute_result(actor, reason) ==
    LET st == dispute_result_status(pairing, actor) IN
    /\ pairing' = IF st = "ok" THEN dispute_result_set(pairing, reason)
                  ELSE pairing
    /\ UNCHANGED <<now, tournament, roster>>

\* ------------------------------------------------------------ cancel_claim
cancel_claim_status(p, actor, time) ==
    IF ~has_pending_claim(p) THEN "400 no pending claim"
    ELSE IF actor # p.claimed_by THEN "403 only the claimer can cancel"
    ELSE IF ~can_cancel_claim(p, time) THEN "400 cancellation window expired"
    ELSE "ok"

cancel_claim_set(p) ==
    [p EXCEPT !.claimed_result = NoResult,
              !.claimed_by = NoPlayer,
              !.claimed_at = NoTime,
              !.confirmation_deadline = NoTime]

cancel_claim(actor) ==
    LET st == cancel_claim_status(pairing, actor, now) IN
    /\ pairing' = IF st = "ok" THEN cancel_claim_set(pairing) ELSE pairing
    /\ UNCHANGED <<now, tournament, roster>>

\* -------------------------------------------------- claim_opponent_no_show
\* "ok" records the claim; "ok already claimed" is the 200 answer to the
\* claimer's repeated request, which records nothing.
\* A no-show check under which a later flag replaces the recorded one.
claim_opponent_no_show_status_last_wins(p, actor) ==
    IF ~is_participant(p, actor) THEN "403 not a participant"
    ELSE IF p.result # PENDING THEN "400 result already recorded"
    ELSE IF p.no_show_claimed_by = actor THEN "ok already claimed"
    ELSE "ok"

claim_opponent_no_show_status(p, actor) ==
    IF ~is_participant(p, actor) THEN "403 not a participant"
    ELSE IF p.result # PENDING THEN "400 result already recorded"
    ELSE IF p.no_show_claimed_by # NoPlayer
         THEN IF p.no_show_claimed_by = actor THEN "ok already claimed"
              ELSE "400 opponent claimed no-show"
    ELSE "ok"

claim_opponent_no_show_set(p, actor, time) ==
    [p EXCEPT !.no_show_claimed_by = actor, !.no_show_claimed_at = time]

claim_opponent_no_show(actor) ==
    LET st == claim_opponent_no_show_status(pairing, actor) IN
    /\ pairing' = IF st = "ok"
                  THEN claim_opponent_no_show_set(pairing, actor, now)
                  ELSE pairing
    /\ UNCHANGED <<now, tournament, roster>>

\* ---------------------------------------------------- update_pairing_result
update_pairing_result_status(p, actor) ==
    IF ~is_admin(actor) /\ ~is_participant(p, actor)
    THEN "403 not authorized"
    ELSE IF p.result \notin {PENDING, BYE} THEN "400 result already recorded"
    ELSE "ok"

update_pairing_result_set(p, res) == [p EXCEPT !.result = res]

update_pairing_result(actor, res) ==
    LET st == update_pairing_result_status(pairing, actor)
        updated == update_pairing_result_set(pairing, res)
    IN
    /\ pairing' = IF st = "ok" THEN updated ELSE pairing
    /\ roster' = IF st = "ok"
                 THEN router_update_player_scores(roster, updated)
                 ELSE roster
    /\ UNCHANGED <<now, tournament>>

\* ----------------------------------------------------------- submit_game_url
\* verified is the outcome of the external verification of the submitted
\* URL: NoResult when the game is not valid for this pairing.
submit_game_url_status(p, actor, verified) ==
    IF ~is_admin(actor) /\ ~is_participant(p, actor)
    THEN "403 not authorized"
    ELSE IF p.result # PENDING THEN "400 result already recorded"
    ELSE IF p.white_player_id = NoPlayer \/ p.black_player_id = NoPlayer
    THEN "400 could not find players"
    ELSE IF verified \notin PlayedResults THEN "ok not verified"
    ELSE "ok"

submit_game_url_set(p, verified) == [p EXCEPT !.result = verified]

submit_game_url(actor, verified) ==
    LET st == submit_game_url_status(pairing, actor, verified)
        updated == submit_game_url_set(pairing, verified)
    IN
    /\ pairing' = IF st = "ok" THEN updated ELSE pairing
    /\ roster' = IF st = "ok"
                 THEN router_update_player_scores(roster, updated)
                 ELSE roster
    /\ UNCHANGED <<now, tournament>>

\* A sweep that takes every pairing past its deadline, resolved or not.
expired_whatever_result(p, time) ==
    /\ p.deadline # NoTime
    /\ p.deadline < time

\* ------------------------------------------------- process_expired_deadlines
\* The selection of the sweep: pending, with a deadline, and past it.
expired(p, time) ==
    /\ p.result = PENDING
    /\ p.deadline # NoTime
    /\ p.deadline < time

\* A sweep that forfeits the claimant instead of the accused.
deadline_result_claimer_forfeited(p) ==
    IF p.no_show_claimed_by # NoPlayer
    THEN IF p.no_show_claimed_by = p.white_player_id THEN WHITE_FORFEIT
         ELSE BLACK_FORFEIT
    ELSE DOUBLE_FORFEIT

\* The outcome the sweep gives an expired pairing.
deadline_result(p) ==
    IF p.no_show_claimed_by # NoPlayer
    THEN IF p.no_show_claimed_by = p.white_player_id THEN BLACK_FORFEIT
         ELSE WHITE_FORFEIT
    ELSE DOUBLE_FORFEIT

deadline_set(p) == [p EXCEPT !.result = deadline_result(p)]

\* The administrator's endpoint.
process_expired_deadlines ==
    LET hit == expired(pairing, now)
        resolved == deadline_set(pairing)
    IN
    /\ pairing' = IF hit THEN resolved ELSE pairing
    /\ roster' = IF hit THEN router_update_player_scores(roster, resolved)
                 ELSE roster
    /\ UNCHANGED <<now, tournament>>

\* The automation service's sweep, run for active tournaments only.
automation_process_expired_deadlines ==
    LET hit == expired(pairing, now)
        resolved == deadline_set(pairing)
    IN
    /\ tournament.status = "active"
    /\ pairing' = IF hit THEN resolved ELSE pairing
    /\ roster' = IF hit THEN update_player_scores(roster, resolved)
                 ELSE roster
    /\ UNCHANGED <<now, tournament>>

\* --------------------------------------------------- auto_detect_game_result
\* The outcome read off a found game: same_colors says the game's white is
\* the pairing's white; white_result and black_result are the game's fields.
detected_result(same_colors, white_result, black_result) ==
    IF same_colors
    THEN IF white_result = "win" THEN WHITE_WINS
         ELSE IF black_result = "win" THEN BLACK_WINS
         ELSE DRAW
    ELSE IF black_result = "win" THEN WHITE_WINS
         ELSE IF white_result = "win" THEN BLACK_WINS
         ELSE DRAW

auto_detect_game_result_status(p, found) ==
    IF p.result # PENDING THEN "false not pending"
    ELSE IF p.white_player_id = NoPlayer \/ p.black_player_id = NoPlayer
    THEN "false no opponent"
    ELSE IF ~found THEN "false no game"
    ELSE "ok"

auto_detect_game_result_set(p, res) == [p EXCEPT !.result = res]

auto_detect_game_result(found, same_colors, white_result, black_result) ==
    LET st == auto_detect_game_result_status(pairing, found)
        res == detected_result(same_colors, white_result, black_result)
        detected == auto_detect_game_result_set(pairing, res)
    IN
    /\ tournament.status = "active"
    /\ pairing' = IF st = "ok" THEN detected ELSE pairing
    /\ roster' = IF st = "ok" THEN update_player_scores(roster, detected)
                 ELSE roster
    /\ UNCHANGED <<now, tournament>>

\* ----------------------------------------------------- admin_override_result
admin_override_result_set(p, res, admin, time) ==
    LET set == [p EXCEPT !.result = res,
                         !.confirmed_by = admin,
                         !.confirmed_at = time,
                         !.is_disputed = FALSE]
    IN  IF p.claimed_result # NoResult
        THEN [set EXCEPT !.claimed_result = NoResult,
                         !.claimed_by = NoPlayer,
                         !.claimed_at = NoTime,
                         !.confirmation_deadline = NoTime]
        ELSE set

\* Whether the override applies the score update.
admin_override_scores(p) == p.result = PENDING

admin_override_result(res) ==
    LET overridden == admin_override_result_set(pairing, res, Admin, now) IN
    /\ pairing' = overridden
    /\ roster' = IF admin_override_scores(pairing)
                 THEN router_update_player_scores(roster, overridden)
                 ELSE roster
    /\ UNCHANGED <<now, tournament>>

\* ---------------------------------------------------------------- the clock
tick ==
    /\ now < MaxTime
    /\ now' = now + 1
    /\ UNCHANGED <<tournament, pairing, roster>>

\* -------------------------------------------------------------- initial state
new_entry ==
    [score |-> 0, wins |-> 0, draws |-> 0, losses |-> 0,
     games_as_white |-> 0, games_as_black |-> 0]

\* A pairing as generate_pairings creates it.
new_pairing(white, black, bye, deadline) ==
    [white_player_id |-> white,
     black_player_id |-> black,
     result |-> IF bye THEN BYE ELSE PENDING,
     deadline |-> IF bye THEN NoTime ELSE deadline,
     no_show_claimed_by |-> NoPlayer,
     no_show_claimed_at |-> NoTime,
     claimed_result |-> NoResult,
     claimed_by |-> NoPlayer,
     claimed_at |-> NoTime,
     confirmation_deadline |-> NoTime,
     confirmed_by |-> NoPlayer,
     confirmed_at |-> NoTime,
     is_disputed |-> FALSE,
     dispute_reason |-> NoReason]

\* Round 1 of three players: p1 plays p2, p3 has the bye and its point.
Init ==
    /\ now = 0
    /\ \E online \in BOOLEAN :
          tournament = [is_online |-> online, status |-> "active",
                        result_confirmation_minutes |-> ConfirmationMinutes]
    /\ pairing \in {new_pairing("p1", "p2", FALSE, DeadlineAt),
                    new_pairing("p3", NoPlayer, TRUE, DeadlineAt)}
    /\ roster = [pl \in Players |->
                    IF pl = "p3" THEN credit(new_entry, WinPoints, 1, 0, 0, 0, 0)
                    ELSE new_entry]

\* ------------------------------------------------------------------ inputs
\* The requests' values are drawn from these sets: for every handler at
\* least one value of each branch it distinguishes.
ClaimInputs == {WHITE_WINS, DRAW, WHITE_FORFEIT}
UpdateInputs == {PENDING, WHITE_WINS, DRAW, BYE}
OverrideInputs == {PENDING, BLACK_WINS, DRAW, BYE}
VerifiedInputs == {BLACK_WINS, NoResult}
\* <<found, same_colors, white_result, black_result>>
DetectInputs ==
    {<<FALSE, TRUE, "other", "other">>,
     <<TRUE, TRUE, "win", "other">>,
     <<TRUE, FALSE, "win", "other">>,
     <<TRUE, TRUE, "other", "other">>}

Next ==
    \/ \E actor \in Actors, res \in ClaimInputs : claim_result(actor, res)
    \/ \E actor \in Actors : confirm_result(actor)
    \/ \E actor \in Actors, reason \in Reasons : dispute_result(actor, reason)
    \/ \E actor \in Actors : cancel_claim(actor)
    \/ \E actor \in Actors : claim_opponent_no_show(actor)
    \/ \E actor \in Actors, res \in UpdateInputs :
          update_pairing_result(actor, res) /\ within_bound(roster')
    \/ \E actor \in Actors, verified \in VerifiedInputs :
          submit_game_url(actor, verified) /\ within_bound(roster')
    \/ process_expired_deadlines /\ within_bound(roster')
    \/ automation_process_expired_deadlines /\ within_bound(roster')
    \/ \E g \in DetectInputs :
          auto_detect_game_result(g[1], g[2], g[3], g[4])
          /\ within_bound(roster')
    \/ \E res \in OverrideInputs :
          admin_override_result(res) /\ within_bound(roster')
    \/ tick

Spec == Init /\ [][Next]_vars

\* ============================================================== properties
\* The claim fields of a pairing.
claim_fields(p) ==
    <<p.claimed_result, p.claimed_by, p.claimed_at, p.confirmation_deadline>>

no_claim_fields == <<NoResult, NoPlayer, NoTime, NoTime>>

\* A claim that waits for the opponent: recorded on a pending pairing,
\* not disputed, and the pairing never confirmed or overridden.
awaits_confirmation(p) ==
    /\ p.result = PENDING
    /\ p.claimed_result # NoResult
    /\ ~p.is_disputed
    /\ p.confirmed_at = NoTime

\* The score, win, draw and loss counters of one entry moved by the given
\* amounts.
moved(before, after, points, w, d, l) ==
    /\ after.score = before.score + points
    /\ after.wins = before.wins + w
    /\ after.draws = before.draws + d
    /\ after.losses = before.losses + l

\* The roster after a played game with outcome res between white and black,
\* every other entry as it was.
played_game_scored(r, rr, white, black, res) ==
    /\ \A pl \in DOMAIN r : pl \notin {white, black} => rr[pl] = r[pl]
    /\ res = WHITE_WINS => /\ moved(r[white], rr[white], 2, 1, 0, 0)
                           /\ moved(r[black], rr[black], 0, 0, 0, 1)
    /\ res = BLACK_WINS => /\ moved(r[white], rr[white], 0, 0, 0, 1)
                           /\ moved(r[black], rr[black], 2, 1, 0, 0)
    /\ res = DRAW => /\ moved(r[white], rr[white], 1, 0, 1, 0)
                     /\ moved(r[black], rr[black], 1, 0, 1, 0)

C2_ScoredAtMostOnce ==
    \A pl \in Players : games(roster[pl]) <= 1

\* A claim that is recorded on a pending pairing and neither cancelled nor
\* resolved, disputed or not.
outstanding_claim(p) ==
    p.result = PENDING /\ p.claimed_result # NoResult

\* C3: a claim is accepted only on a pending pairing without an outstanding
\* claim; an accepted claim sets the four claim fields and leaves the
\* outcome pending; a rejected claim leaves the claim fields as they were.
C3_ClaimOnlyWithoutOutstandingClaim ==
    [][\A a \in Actors, res \in ClaimInputs :
          claim_result(a, res)
          => IF claim_result_status(tournament, pairing, a, res) = "ok"
             THEN /\ pairing.result = PENDING
                  /\ ~outstanding_claim(pairing)
                  /\ claim_fields(pairing') =
                        <<res, a, now, now + tournament.result_confirmation_minutes>>
                  /\ pairing'.result = PENDING
             ELSE claim_fields(pairing') = claim_fields(pairing)]_vars

\* A step that changes the pairing or a roster entry.
changes_record == pairing' # pairing \/ roster' # roster

\* C4: a confirm or dispute by the claimer, a cancel by anyone but the
\* claimer, and a claim, confirm or dispute by a non-participant are
\* rejected (the handler's status is never "ok" for them), and no step that
\* changes the pairing or the roster is a step of such a request.
C4_RejectionsChangeNothing ==
    [][\A a \in Actors :
          /\ a = pairing.claimed_by
             => /\ confirm_result_status(pairing, a) # "ok"
                /\ dispute_result_status(pairing, a) # "ok"
                /\ changes_record
                   => /\ ~confirm_result(a)
                      /\ \A reason \in Reasons : ~dispute_result(a, reason)
          /\ a # pairing.claimed_by
             => /\ cancel_claim_status(pairing, a, now) # "ok"
                /\ changes_record => ~cancel_claim(a)
          /\ ~is_participant(pairing, a)
             => /\ \A res \in ClaimInputs :
                      claim_result_status(tournament, pairing, a, res) # "ok"
                /\ confirm_result_status(pairing, a) # "ok"
                /\ dispute_result_status(pairing, a) # "ok"
                /\ changes_record
                   => /\ \A res \in ClaimInputs : ~claim_result(a, res)
                      /\ ~confirm_result(a)
                      /\ \A reason \in Reasons :
                            ~dispute_result(a, reason)]_vars

\* p1's claim waits for p2: a confirm or dispute by p1, a cancel by p2 and
\* any request of p3 are the rejected requests.
C4_Witness ==
    /\ awaits_confirmation(pairing)
    /\ pairing.claimed_by = "p1"
    /\ pairing.black_player_id = "p2"
    /\ now = pairing.claimed_at + 1

\* C5: cancel succeeds only for the claimer and only while less than two
\* minutes have passed since the claim; it clears the four claim fields,
\* leaves the outcome pending and the roster unchanged, and a fresh claim
\* by either participant is accepted afterwards; from two minutes on it is
\* rejected and changes nothing.
C5_CancelWithinTwoMinutes ==
    [][\A a \in Actors :
          cancel_claim(a)
          => /\ pairing' # pairing
                => /\ a = pairing.claimed_by
                   /\ now - pairing.claimed_at < 2
                   /\ claim_fields(pairing') = no_claim_fields
                   /\ pairing' = [pairing EXCEPT !.claimed_result = NoResult,
                                                 !.claimed_by = NoPlayer,
                                                 !.claimed_at = NoTime,
                                                 !.confirmation_deadline = NoTime]
                   /\ pairing'.result = PENDING
                   /\ roster' = roster
                   /\ \A q \in Players, res \in PlayedResults :
                         is_participant(pairing', q)
                         => claim_result_status(tournament', pairing', q, res) = "ok"
             /\ (awaits_confirmation(pairing) /\ a = pairing.claimed_by
                 /\ now - pairing.claimed_at < 2)
                => claim_fields(pairing') = no_claim_fields
             /\ (pairing.claimed_at # NoTime /\ now - pairing.claimed_at >= 2)
                => UNCHANGED <<pairing, roster>>]_vars

\* The window of p1's claim has just closed (two minutes after the claim):
\* the state in which p1's cancel is rejected, and that it leaves unchanged.
C5_Witness ==
    /\ awaits_confirmation(pairing)
    /\ pairing.claimed_by = "p1"
    /\ pairing.claimed_at = 0
    /\ now = 2
    /\ games(roster["p1"]) = 0

is_admin_override ==
    \E res \in OverrideInputs : admin_override_result(res)

\* C7: once a pairing is disputed its outcome stays pending until an
\* administrator overrides it: no other operation moves a disputed pairing
\* to a terminal outcome.
C7_DisputedStaysPending ==
    [][(/\ pairing.is_disputed
        /\ pairing.result = PENDING
        /\ pairing'.result # PENDING)
       => is_admin_override]_vars

\* Whether the score update of a pairing has been applied: one of its
\* players carries a game (for a bye, the point given at creation).
already_scored(r, p) ==
    \E pl \in {p.white_player_id, p.black_player_id} \ {NoPlayer} :
        games(r[pl]) > 0

\* C8: an override in any state sets the outcome to the given value, clears
\* is_disputed and the four claim fields, and applies the score update if
\* and only if the pairing had not been scored already.
C8_OverrideScoresUnscoredOnly ==
    [][\A res \in OverrideInputs :
          admin_override_result(res)
          => /\ pairing'.result = res
             /\ ~pairing'.is_disputed
             /\ claim_fields(pairing') = no_claim_fields
             /\ roster' = IF already_scored(roster, pairing) THEN roster
                          ELSE router_update_player_scores(roster, pairing')]_vars

\* C9: once the outcome is terminal (bye included), only an administrative
\* override changes it.
C9_TerminalOutcomeKept ==
    [][(pairing.result # PENDING /\ pairing'.result # pairing.result)
       => is_admin_override]_vars

\* C10: no request of a single participant (claim, dispute, cancel, no-show
\* flag, direct result update, or a confirm of one's own claim) turns a
\* pending outcome into white_wins, black_wins or draw.
C10_NoUnilateralResult ==
    [][\A a \in Players :
          (/\ ~is_admin(a)
           /\ pairing.result = PENDING
           /\ \/ \E res \in ClaimInputs : claim_result(a, res)
              \/ \E reason \in Reasons : dispute_result(a, reason)
              \/ cancel_claim(a)
              \/ claim_opponent_no_show(a)
              \/ \E res \in UpdateInputs : update_pairing_result(a, res)
              \/ (a = pairing.claimed_by /\ confirm_result(a)))
          => pairing'.result \notin PlayedResults]_vars

\* ======================================================= pairing engines
\* app/services/swiss.py.  A SwissPlayer is a record [id, score, rating,
\* games_as_white, games_as_black, opponents]; a SwissPairing is a record
\* [white_id, black_id, board_number, is_bye].  The bye's empty black_id is
\* NoPlayer (the callers store it as None).
color_balance(sp) == sp.games_as_white - sp.games_as_black

needs_white(sp) == color_balance(sp) < 0

needs_black(sp) == color_balance(sp) > 0

SwissPairing(white, black, board, bye) ==
    [white_id |-> white, black_id |-> black, board_number |-> board,
     is_bye |-> bye]

\* sorted(seq, key=..., reverse=True): stable, highest key first.  key maps
\* a player's id to the sort key.
RECURSIVE sorted_reverse(_, _)
sorted_reverse(seq, key) ==
    IF seq = <<>> THEN <<>>
    ELSE LET rest == sorted_reverse(SubSeq(seq, 1, Len(seq) - 1), key)
             x == seq[Len(seq)]
             k == Cardinality({i \in 1..Len(rest) :
                                  key[rest[i].id] >= key[x.id]})
         IN  SubSeq(rest, 1, k) \o <<x>> \o SubSeq(rest, k + 1, Len(rest))

rating_key(seq) ==
    [id \in {seq[i].id : i \in 1..Len(seq)} |->
        LET j == CHOOSE i \in 1..Len(seq) : seq[i].id = id
        IN  seq[j].rating]

\* The key (score, rating), compared lexicographically: ratings stay below
\* RatingBase.
RatingBase == 10000

score_rating_key(seq) ==
    [id \in {seq[i].id : i \in 1..Len(seq)} |->
        LET j == CHOOSE i \in 1..Len(seq) : seq[i].id = id
        IN  seq[j].score * RatingBase + seq[j].rating]

\* A first round that pairs neighbours in the rating order.
generate_round_1_pairings_adjacent(players) ==
    LET by_rating == sorted_reverse(players, rating_key(players))
        odd == Len(by_rating) % 2 = 1
        half == Len(by_rating) \div 2
    IN  (IF odd
         THEN <<SwissPairing(by_rating[Len(by_rating)].id, NoPlayer, 0, TRUE)>>
         ELSE <<>>) \o
        [i \in 1..half |->
            SwissPairing(by_rating[2 * i - 1].id, by_rating[2 * i].id, i, FALSE)]

\* SwissPairingEngine.generate_round_1_pairings over the active players.
generate_round_1_pairings(players) ==
    LET by_rating == sorted_reverse(players, rating_key(players))
        odd == Len(by_rating) % 2 = 1
        bye_pairings ==
            IF odd
            THEN <<SwissPairing(by_rating[Len(by_rating)].id, NoPlayer, 0, TRUE)>>
            ELSE <<>>
        n == IF odd THEN Len(by_rating) - 1 ELSE Len(by_rating)
        half == n \div 2
    IN  bye_pairings \o
        [i \in 1..half |->
            SwissPairing(by_rating[i].id, by_rating[half + i].id, i, FALSE)]

\* Colours by rating alone, whatever the players' colour history.
assign_colors_by_rating(p1, p2) ==
    IF p1.rating >= p2.rating THEN <<p1.id, p2.id>> ELSE <<p2.id, p1.id>>

\* SwissPairingEngine._assign_colors: <<white_id, black_id>>.
assign_colors(p1, p2) ==
    IF needs_white(p1) /\ ~needs_white(p2) THEN <<p1.id, p2.id>>
    ELSE IF needs_white(p2) /\ ~needs_white(p1) THEN <<p2.id, p1.id>>
    ELSE IF needs_black(p1) /\ ~needs_black(p2) THEN <<p2.id, p1.id>>
    ELSE IF needs_black(p2) /\ ~needs_black(p1) THEN <<p1.id, p2.id>>
    ELSE IF p1.rating >= p2.rating THEN <<p1.id, p2.id>>
    ELSE <<p2.id, p1.id>>

\* seq without its i-th element.
without(seq, i) == SubSeq(seq, 1, i - 1) \o SubSeq(seq, i + 1, Len(seq))

\* The while loop over one score group: pairs the head of available with the
\* first later player it has not met, or carries it over.  Returns the
\* pairings and the unpaired players (leftover included).
RECURSIVE pair_within_group(_, _, _)
pair_within_group(available, pairings, unpaired) ==
    IF Len(available) < 2
    THEN [pairings |-> pairings, unpaired |-> unpaired \o available]
    ELSE LET player1 == Head(available)
             rest == Tail(available)
             fresh == {i \in 1..Len(rest) : rest[i].id \notin player1.opponents}
         IN  IF fresh = {}
             THEN pair_within_group(rest, pairings, Append(unpaired, player1))
             ELSE LET i == CHOOSE j \in fresh : \A k \in fresh : j <= k
                      colors == assign_colors(player1, rest[i])
                  IN  pair_within_group(
                          without(rest, i),
                          Append(pairings,
                                 SwissPairing(colors[1], colors[2],
                                              Len(pairings) + 1, FALSE)),
                          unpaired)

\* The loop over the score groups, highest score first.  No player of a
\* group is in paired_ids (a paired player leaves available for good), so
\* available is the whole group.
RECURSIVE pair_score_groups(_, _, _, _)
pair_score_groups(sorted_players, scores, pairings, unpaired) ==
    IF scores = {} THEN [pairings |-> pairings, unpaired |-> unpaired]
    ELSE LET score == CHOOSE s \in scores : \A o \in scores : s >= o
             group == unpaired \o
                      SelectSeq(sorted_players, LAMBDA p : p.score = score)
             done == pair_within_group(group, pairings, <<>>)
         IN  pair_score_groups(sorted_players, scores \ {score},
                               done.pairings, done.unpaired)

\* min(unpaired, key=(score, rating)): the first of the minimal ones.
bye_player(unpaired) ==
    LET key == score_rating_key(unpaired)
        i == CHOOSE j \in 1..Len(unpaired) :
                /\ \A k \in 1..Len(unpaired) :
                      key[unpaired[j].id] <= key[unpaired[k].id]
                /\ \A k \in 1..(j - 1) :
                      key[unpaired[k].id] > key[unpaired[j].id]
    IN  unpaired[i]

\* SwissPairingEngine._generate_swiss_pairings (rounds 2 and later).
generate_swiss_pairings(players) ==
    LET sorted_players == sorted_reverse(players, score_rating_key(players))
        scores == {players[i].score : i \in 1..Len(players)}
        done == pair_score_groups(sorted_players, scores, <<>>, <<>>)
    IN  IF done.unpaired # <<>>
        THEN Append(done.pairings,
                    SwissPairing(bye_player(done.unpaired).id, NoPlayer, 0, TRUE))
        ELSE done.pairings

\* SwissPairingEngine.generate_pairings.
swiss_generate_pairings(players, round_number) ==
    IF round_number = 1 THEN generate_round_1_pairings(players)
    ELSE generate_swiss_pairings(players)

\* ------------------------------------------------------- RoundRobinEngine
ByeSlot == "BYE"

\* RoundRobinEngine.__init__: seeded by rating, with the placeholder when
\* the count is odd.
round_robin_players(players) ==
    LET seeded == sorted_reverse(players, rating_key(players)) IN
    IF Len(seeded) % 2 = 1
    THEN Append(seeded, [id |-> ByeSlot, score |-> 0, rating |-> 0,
                         games_as_white |-> 0, games_as_black |-> 0,
                         opponents |-> {}])
    ELSE seeded

\* RoundRobinEngine.get_total_rounds.
get_total_rounds(players) == Len(round_robin_players(players)) - 1

\* A rotation that moves the first index as well.
rotate_all(indices) ==
    <<indices[Len(indices)]>> \o SubSeq(indices, 1, Len(indices) - 1)

\* One rotation of the circle: the first index stays, the last moves to the
\* second place.
rotate(indices) ==
    <<indices[1]>> \o <<indices[Len(indices)]>>
    \o SubSeq(indices, 2, Len(indices) - 1)

\* The indices at the start of round round_num.
RECURSIVE indices_of_round(_, _)
indices_of_round(n, round_num) ==
    IF round_num = 1 THEN [i \in 1..n |-> i]
    ELSE rotate(indices_of_round(n, round_num - 1))

\* The pairings of positions i.. of one round; board is the next free board.
RECURSIVE round_robin_boards(_, _, _, _, _)
round_robin_boards(seeded, indices, round_num, i, board) ==
    LET n == Len(seeded) IN
    IF i >= n \div 2 THEN <<>>
    ELSE LET player1 == seeded[indices[i + 1]]
             player2 == seeded[indices[n - i]]
             odd_round == round_num % 2 = 1
             first_white == IF i % 2 = 1 THEN ~odd_round ELSE odd_round
         IN  IF player1.id = ByeSlot
             THEN <<SwissPairing(player2.id, NoPlayer, 0, TRUE)>>
                  \o round_robin_boards(seeded, indices, round_num, i + 1, board)
             ELSE IF player2.id = ByeSlot
             THEN <<SwissPairing(player1.id, NoPlayer, 0, TRUE)>>
                  \o round_robin_boards(seeded, indices, round_num, i + 1, board)
             ELSE <<IF first_white
                    THEN SwissPairing(player1.id, player2.id, board, FALSE)
                    ELSE SwissPairing(player2.id, player1.id, board, FALSE)>>
                  \o round_robin_boards(seeded, indices, round_num, i + 1,
                                        board + 1)

\* RoundRobinEngine.generate_round: the round's entry of generate_all_rounds,
\* empty when the schedule has no such round.
generate_round(players, round_number) ==
    LET seeded == round_robin_players(players)
        n == Len(seeded)
    IN  IF round_number \in 1..(n - 1)
        THEN round_robin_boards(seeded, indices_of_round(n, round_number),
                                round_number, 0, 1)
        ELSE <<>>

\* ===================================================== finalize_tournament
\* The rows of the roster table are read in the order the players joined.
RosterOrder == <<"p1", "p2", "p3", "p4">>

Entrants == {RosterOrder[i] : i \in 1..Len(RosterOrder)}

NoRank == 0

\* The head-to-head entry h2h[a][b] after the loop over all pairings, in
\* half points (2 won, 0 lost, 1 drawn), or -1 when the map has no entry:
\* the last pairing between the two with a played result decides.
h2h(rows, a, b) ==
    LET played == {i \in 1..Len(rows) :
                      /\ {rows[i].white_player_id, rows[i].black_player_id} = {a, b}
                      /\ a # b
                      /\ rows[i].result \in PlayedResults}
    IN  IF played = {} THEN -1
        ELSE LET p == rows[CHOOSE i \in played : \A j \in played : i >= j]
             IN  IF p.result = DRAW THEN DrawPoints
                 ELSE IF (p.result = WHITE_WINS) = (p.white_player_id = a)
                 THEN WinPoints
                 ELSE 0

\* player_scores.get(id, 0): the scores of the players that are not
\* withdrawn, 0 for anyone else.
player_scores_get(r, id) ==
    IF id \in DOMAIN r /\ ~r[id].is_withdrawn THEN r[id].score ELSE 0

\* The Buchholz loop for one player over all pairings.
RECURSIVE finalize_buchholz(_, _, _)
finalize_buchholz(r, rows, id) ==
    IF rows = <<>> THEN 0
    ELSE LET p == rows[Len(rows)]
             before == finalize_buchholz(r, SubSeq(rows, 1, Len(rows) - 1), id)
         IN  IF p.white_player_id = id /\ p.black_player_id # NoPlayer
             THEN before + player_scores_get(r, p.black_player_id)
             ELSE IF p.black_player_id = id /\ p.white_player_id # NoPlayer
             THEN before + player_scores_get(r, p.white_player_id)
             ELSE before

\* compare_players on two roster entries with their Buchholz set: negative
\* when tp1 ranks above tp2.
compare_players(r, rows, tp1, tp2) ==
    IF r[tp1].score # r[tp2].score THEN r[tp2].score - r[tp1].score
    ELSE IF r[tp1].buchholz # r[tp2].buchholz
    THEN r[tp2].buchholz - r[tp1].buchholz
    ELSE IF h2h(rows, tp1, tp2) = WinPoints THEN -1
    ELSE IF h2h(rows, tp1, tp2) = 0 THEN 1
    ELSE r[tp2].wins - r[tp1].wins

\* ------------------------------------------------- sorted(..., key=cmp_to_key)
\* CPython's list sort on fewer than 64 elements: the leading run is found
\* (and reversed when strictly descending), the rest is inserted by binary
\* search.  less is the set of pairs <<a, b>> with a < b.
RECURSIVE count_run(_, _, _, _)
count_run(seq, less, descending, n) ==
    IF n = Len(seq) THEN n
    ELSE IF (<<seq[n + 1], seq[n]>> \in less) = descending
    THEN count_run(seq, less, descending, n + 1)
    ELSE n

reverse_slice(seq, n) ==
    [i \in 1..Len(seq) |-> IF i <= n THEN seq[n + 1 - i] ELSE seq[i]]

\* The place (0-based) of pivot among the first r elements.
RECURSIVE bisect(_, _, _, _, _)
bisect(seq, less, pivot, l, r) ==
    IF l >= r THEN l
    ELSE LET p == l + ((r - l) \div 2) IN
         IF <<pivot, seq[p + 1]>> \in less
         THEN bisect(seq, less, pivot, l, p)
         ELSE bisect(seq, less, pivot, p + 1, r)

RECURSIVE binarysort(_, _, _)
binarysort(seq, less, start) ==
    IF start >= Len(seq) THEN seq
    ELSE LET pivot == seq[start + 1]
             l == bisect(seq, less, pivot, 0, start)
         IN  binarysort(SubSeq(seq, 1, l) \o <<pivot>>
                        \o SubSeq(seq, l + 1, start)
                        \o SubSeq(seq, start + 2, Len(seq)),
                        less, start + 1)

list_sort(seq, less) ==
    IF Len(seq) < 2 THEN seq
    ELSE LET descending == <<seq[2], seq[1]>> \in less
             n == count_run(seq, less, descending, 2)
         IN  binarysort(IF descending THEN reverse_slice(seq, n) ELSE seq,
                        less, n)

\* =========================================================== the rounds
\* The tournament as a whole: in RoundsSpec the variable pairing holds the
\* table of the tournament's Pairing rows, in creation order, each with its
\* round_number and board_number; roster holds the TournamentPlayer rows of
\* the entrants; now is counted in hours.
PAIRING_DEADLINE_HOURS == 24

\* The clock of RoundsSpec advances by this many hours at a time.
ClockStep == 25

pairing_row(round_number, sp, deadline) ==
    new_pairing(sp.white_id, sp.black_id, sp.is_bye, deadline)
    @@ [round_number |-> round_number, board_number |-> sp.board_number]

\* A selection that keeps the withdrawn rows.
tournament_players_with_withdrawn(r) ==
    SelectSeq(RosterOrder, LAMBDA id : id \in DOMAIN r)

\* The ids of the roster rows that are not withdrawn, in row order.
tournament_players(r) ==
    SelectSeq(RosterOrder, LAMBDA id : id \in DOMAIN r /\ ~r[id].is_withdrawn)

\* opponents_map[id]: built from the stored pairings whose result is not
\* bye and that have both players.
opponents_map(rows, id) ==
    {opp \in Entrants :
        \E i \in 1..Len(rows) :
            /\ rows[i].result # BYE
            /\ rows[i].white_player_id # NoPlayer
            /\ rows[i].black_player_id # NoPlayer
            /\ \/ rows[i].white_player_id = id /\ rows[i].black_player_id = opp
               \/ rows[i].black_player_id = id /\ rows[i].white_player_id = opp}

\* The SwissPlayer objects handed to the engines.
pairing_players(r, rows) ==
    LET tps == tournament_players(r) IN
    [i \in 1..Len(tps) |->
        [id |-> tps[i],
         score |-> r[tps[i]].score,
         rating |-> r[tps[i]].seed_rating,
         games_as_white |-> r[tps[i]].games_as_white,
         games_as_black |-> r[tps[i]].games_as_black,
         opponents |-> opponents_map(rows, tps[i])]]

engine_pairings(t, players, next_round) ==
    IF t.format = "round_robin" THEN generate_round(players, next_round)
    ELSE swiss_generate_pairings(players, next_round)

\* The bye's automatic win for every bye among the new pairings.
RECURSIVE credit_byes(_, _)
credit_byes(r, new_pairings) ==
    IF new_pairings = <<>> THEN r
    ELSE LET sp == Head(new_pairings)
             rest == credit_byes(r, Tail(new_pairings))
         IN  IF sp.is_bye /\ sp.white_id \in DOMAIN rest
             THEN [rest EXCEPT ![sp.white_id] = credit(@, WinPoints, 1, 0, 0, 0, 0)]
             ELSE rest

\* The Pairing rows of a new round and the roster after its byes.
create_round(r, rows, new_pairings, next_round, time) ==
    [rows |-> rows \o [i \in 1..Len(new_pairings) |->
                          pairing_row(next_round, new_pairings[i],
                                      time + PAIRING_DEADLINE_HOURS)],
     roster |-> credit_byes(r, new_pairings)]

\* A check that never finds a pending pairing.
round_pending_never(rows, round_number) == FALSE

\* Whether a round has a pending pairing.
round_pending(rows, round_number) ==
    \E i \in 1..Len(rows) :
        rows[i].round_number = round_number /\ rows[i].result = PENDING

\* ------------------------------------------- generate_pairings (the router)
required_rounds(n) == IF n % 2 = 0 THEN n - 1 ELSE n

generate_pairings_status(t, r, rows) ==
    IF t.status = "completed" THEN "400 already completed"
    ELSE IF t.current_round + 1 > t.total_rounds
    THEN "400 all rounds completed"
    ELSE IF t.current_round > 0 /\ round_pending(rows, t.current_round)
    THEN "400 unfinished games"
    ELSE IF Len(tournament_players(r)) < 2 THEN "400 need at least 2 players"
    ELSE IF /\ t.format = "round_robin"
            /\ t.total_rounds < required_rounds(Len(tournament_players(r)))
    THEN "400 round robin requires more rounds"
    ELSE "ok"

generate_pairings ==
    LET st == generate_pairings_status(tournament, roster, pairing)
        next_round == tournament.current_round + 1
        created == create_round(roster, pairing,
                                engine_pairings(tournament,
                                                pairing_players(roster, pairing),
                                                next_round),
                                next_round, now)
    IN
    /\ tournament' =
          IF st = "ok"
          THEN [tournament EXCEPT
                   !.status = IF @ = "registration" THEN "active" ELSE @,
                   !.current_round = next_round]
          ELSE IF st = "400 all rounds completed"
          THEN [tournament EXCEPT !.status = "completed"]
          ELSE tournament
    /\ pairing' = IF st = "ok" THEN created.rows ELSE pairing
    /\ roster' = IF st = "ok" THEN created.roster ELSE roster
    /\ UNCHANGED now

\* ------------------------------------------------------ the deadline sweeps
\* The rows after a sweep at the given time.
swept(rows, time) ==
    [i \in 1..Len(rows) |->
        IF expired(rows[i], time) THEN deadline_set(rows[i]) ELSE rows[i]]

\* The roster after the router's score update for every row of the sweep.
RECURSIVE router_sweep_scores(_, _, _)
router_sweep_scores(r, rows, time) ==
    IF rows = <<>> THEN r
    ELSE LET before == router_sweep_scores(r, SubSeq(rows, 1, Len(rows) - 1), time)
             p == rows[Len(rows)]
         IN  IF expired(p, time)
             THEN router_update_player_scores(before, deadline_set(p))
             ELSE before

\* The same with the automation service's score update.
RECURSIVE sweep_scores(_, _, _)
sweep_scores(r, rows, time) ==
    IF rows = <<>> THEN r
    ELSE LET before == sweep_scores(r, SubSeq(rows, 1, Len(rows) - 1), time)
             p == rows[Len(rows)]
         IN  IF expired(p, time)
             THEN update_player_scores(before, deadline_set(p))
             ELSE before

\* The DeadlineProcessingResult the router returns.
DeadlineProcessingResult(rows, time) ==
    LET hit == {i \in 1..Len(rows) : expired(rows[i], time)} IN
    [processed_count |-> Cardinality(hit),
     forfeits |-> Cardinality({i \in hit :
                                  rows[i].no_show_claimed_by # NoPlayer}),
     double_forfeits |-> Cardinality({i \in hit :
                                         rows[i].no_show_claimed_by = NoPlayer})]

\* The administrator's endpoint over the tournament's rows.
process_deadlines ==
    /\ pairing' = swept(pairing, now)
    /\ roster' = router_sweep_scores(roster, pairing, now)
    /\ UNCHANGED <<now, tournament>>

\* ------------------------------------------------ the automation's round work
check_round_complete(t, rows) ==
    IF t.current_round = 0 THEN FALSE
    ELSE ~round_pending(rows, t.current_round)

\* generate_next_round: [done, tournament, rows, roster].
generate_next_round(t, r, rows, time) ==
    LET next_round == t.current_round + 1
        created == create_round(r, rows,
                                engine_pairings(t, pairing_players(r, rows),
                                                next_round),
                                next_round, time)
    IN  IF next_round > t.total_rounds \/ Len(tournament_players(r)) < 2
        THEN [done |-> FALSE, tournament |-> t, rows |-> rows, roster |-> r]
        ELSE [done |-> TRUE,
              tournament |-> [t EXCEPT !.current_round = next_round],
              rows |-> created.rows,
              roster |-> created.roster]

\* The roster with every active player's Buchholz recomputed.
with_buchholz(r, rows) ==
    [id \in DOMAIN r |->
        IF r[id].is_withdrawn THEN r[id]
        ELSE [r[id] EXCEPT !.buchholz = finalize_buchholz(r, rows, id)]]

\* players_sorted: the active players in final order.
players_sorted(r, rows) ==
    LET rb == with_buchholz(r, rows)
        players == tournament_players(r)
        less == {ab \in (DOMAIN r) \X (DOMAIN r) :
                    /\ ~r[ab[1]].is_withdrawn
                    /\ ~r[ab[2]].is_withdrawn
                    /\ compare_players(rb, rows, ab[1], ab[2]) < 0}
    IN  list_sort(players, less)

\* A finalization that lets players no comparison separates share a rank.
finalize_tournament_shared_ranks(t, r, rows) ==
    LET rb == with_buchholz(r, rows) IN
    [tournament |-> [t EXCEPT !.status = "completed"],
     roster |-> [id \in DOMAIN rb |->
                    IF rb[id].is_withdrawn THEN rb[id]
                    ELSE [rb[id] EXCEPT !.final_rank =
                             1 + Cardinality(
                                    {other \in DOMAIN rb :
                                        /\ ~rb[other].is_withdrawn
                                        /\ compare_players(rb, rows, other, id) < 0})]]]

\* finalize_tournament: [tournament, roster].
finalize_tournament(t, r, rows) ==
    LET rb == with_buchholz(r, rows)
        order == players_sorted(r, rows)
    IN  [tournament |-> [t EXCEPT !.status = "completed"],
         roster |-> [id \in DOMAIN rb |->
                        IF \E i \in 1..Len(order) : order[i] = id
                        THEN [rb[id] EXCEPT !.final_rank =
                                 CHOOSE i \in 1..Len(order) : order[i] = id]
                        ELSE rb[id]]]

\* The rows and roster after auto_detect_game_result ran for every pending
\* pairing; found is the row for which the lookup returns a game (0: none),
\* a game that white won with the pairing's colours.
detect_all(r, rows, found) ==
    IF /\ found \in 1..Len(rows)
       /\ auto_detect_game_result_status(rows[found], TRUE) = "ok"
    THEN LET detected ==
                auto_detect_game_result_set(rows[found],
                                            detected_result(TRUE, "win", "other"))
         IN  [rows |-> [rows EXCEPT ![found] = detected],
              roster |-> update_player_scores(r, detected)]
    ELSE [rows |-> rows, roster |-> r]

\* process_tournament, as run_automation_cycle runs it for a tournament it
\* selected as active and commits it.
process_tournament(found) ==
    LET detected == detect_all(roster, pairing, found)
        rows2 == swept(detected.rows, now)
        roster2 == sweep_scores(detected.roster, detected.rows, now)
        next == generate_next_round(tournament, roster2, rows2, now)
        final == finalize_tournament(tournament, roster2, rows2)
    IN
    /\ tournament.status = "active"
    /\ UNCHANGED now
    /\ IF ~check_round_complete(tournament, rows2)
       THEN /\ pairing' = rows2
            /\ roster' = roster2
            /\ UNCHANGED tournament
       ELSE IF tournament.current_round >= tournament.total_rounds
       THEN /\ pairing' = rows2
            /\ roster' = final.roster
            /\ tournament' = final.tournament
       ELSE /\ pairing' = next.rows
            /\ roster' = next.roster
            /\ tournament' = next.tournament

\* ------------------------------------------------- requests on one pairing
\* The handlers of one pairing, addressed to row i of the table.
update_result_of(i, actor, res) ==
    LET st == update_pairing_result_status(pairing[i], actor)
        updated == update_pairing_result_set(pairing[i], res)
    IN
    /\ pairing' = IF st = "ok" THEN [pairing EXCEPT ![i] = updated] ELSE pairing
    /\ roster' = IF st = "ok" THEN router_update_player_scores(roster, updated)
                 ELSE roster
    /\ UNCHANGED <<now, tournament>>

no_show_of(i, actor) ==
    LET st == claim_opponent_no_show_status(pairing[i], actor) IN
    /\ pairing' = IF st = "ok"
                  THEN [pairing EXCEPT
                           ![i] = claim_opponent_no_show_set(@, actor, now)]
                  ELSE pairing
    /\ UNCHANGED <<now, tournament, roster>>

override_of(i, res) ==
    LET overridden == admin_override_result_set(pairing[i], res, Admin, now) IN
    /\ pairing' = [pairing EXCEPT ![i] = overridden]
    /\ roster' = IF admin_override_scores(pairing[i])
                 THEN router_update_player_scores(roster, overridden)
                 ELSE roster
    /\ UNCHANGED <<now, tournament>>

\* ------------------------------------------------------ roster and settings
withdraw_from_tournament(player) ==
    /\ roster' = IF player \in DOMAIN roster
                 THEN [roster EXCEPT ![player].is_withdrawn = TRUE]
                 ELSE roster
    /\ UNCHANGED <<now, tournament, pairing>>

\* update_tournament with a status in the request.
update_tournament(status) ==
    /\ tournament' = [tournament EXCEPT !.status = status]
    /\ UNCHANGED <<now, pairing, roster>>

hours_pass ==
    /\ now < ClockStep
    /\ now' = now + ClockStep
    /\ UNCHANGED <<tournament, pairing, roster>>

\* ------------------------------------------------------------ RoundsSpec
\* The ratings the entrants joined with (1200 is the default).
seed_ratings == [id \in Entrants |->
                    CASE id = "p1" -> 1500 [] id = "p2" -> 1400 [] OTHER -> 1200]

new_tournament_player(rating) ==
    new_entry @@ [seed_rating |-> rating, buchholz |-> 0,
                  final_rank |-> NoRank, is_withdrawn |-> FALSE]

\* Registration is over: three entrants, no round generated yet.
RoundsInit ==
    /\ now = 0
    /\ tournament = [status |-> "registration", current_round |-> 0,
                     total_rounds |-> 2, format |-> "swiss"]
    /\ pairing = <<>>
    /\ roster = [id \in Players |-> new_tournament_player(seed_ratings[id])]

\* The rows of the current round with two players: the requests on one
\* pairing address these.
regular_rows ==
    {i \in 1..Len(pairing) :
        /\ pairing[i].black_player_id # NoPlayer
        /\ pairing[i].round_number = tournament.current_round}

RoundsUpdateInputs == {WHITE_WINS, DRAW}
RoundsOverrideInputs == {BLACK_WINS}
WithdrawInputs == {"p2", Admin}
StatusInputs == {"active"}

RoundsNext ==
    \/ generate_pairings
    \/ \E found \in 0..Len(pairing) : process_tournament(found)
    \/ process_deadlines
    \/ \E i \in regular_rows, res \in RoundsUpdateInputs :
          update_result_of(i, Admin, res)
    \/ \E i \in regular_rows :
          \E actor \in {pairing[i].white_player_id, pairing[i].black_player_id} :
             no_show_of(i, actor)
    \/ \E i \in regular_rows, res \in RoundsOverrideInputs : override_of(i, res)
    \/ \E player \in WithdrawInputs : withdraw_from_tournament(player)
    \/ \E status \in StatusInputs : update_tournament(status)
    \/ hours_pass

RoundsSpec == RoundsInit /\ [][RoundsNext]_vars

\* ------------------------------------------------------------ EngineSpec
\* Four entrants under either engine: the rounds are generated by the
\* administrator or by the automation, results are recorded by the
\* administrator, and the third seed may withdraw.
EngineInit ==
    /\ now = 0
    /\ tournament \in {[status |-> "registration", current_round |-> 0,
                        total_rounds |-> 3, format |-> "swiss"],
                       [status |-> "registration", current_round |-> 0,
                        total_rounds |-> 3, format |-> "round_robin"]}
    /\ pairing = <<>>
    /\ roster = [id \in Entrants |-> new_tournament_player(seed_ratings[id])]

EngineUpdateInputs == {WHITE_WINS, DRAW}
EngineWithdrawInputs == {"p3"}

EngineNext ==
    \/ generate_pairings
    \/ process_tournament(0)
    \/ \E i \in regular_rows, res \in EngineUpdateInputs :
          update_result_of(i, Admin, res)
    \/ \E player \in EngineWithdrawInputs : withdraw_from_tournament(player)

EngineSpec == EngineInit /\ [][EngineNext]_vars

\* ====================================================== rounds: properties
\* The outcome the deadline rule gives a pairing: the accused side of a
\* no-show claim forfeits, and without a claim both sides do.
C11_forfeit(p) ==
    IF p.no_show_claimed_by = NoPlayer THEN DOUBLE_FORFEIT
    ELSE IF p.no_show_claimed_by = p.white_player_id THEN BLACK_FORFEIT
    ELSE IF p.no_show_claimed_by = p.black_player_id THEN WHITE_FORFEIT
    ELSE PENDING

\* The rows that are pending with a deadline before now.
C11_due ==
    {i \in 1..Len(pairing) :
        /\ pairing[i].result = PENDING
        /\ pairing[i].deadline # NoTime
        /\ pairing[i].deadline < now}

C11_won(id) ==
    {i \in C11_due :
        \/ C11_forfeit(pairing[i]) = BLACK_FORFEIT /\ pairing[i].white_player_id = id
        \/ C11_forfeit(pairing[i]) = WHITE_FORFEIT /\ pairing[i].black_player_id = id}

C11_lost(id) ==
    {i \in C11_due :
        \/ C11_forfeit(pairing[i]) = BLACK_FORFEIT /\ pairing[i].black_player_id = id
        \/ C11_forfeit(pairing[i]) = WHITE_FORFEIT /\ pairing[i].white_player_id = id
        \/ /\ C11_forfeit(pairing[i]) = DOUBLE_FORFEIT
           /\ id \in {pairing[i].white_player_id, pairing[i].black_player_id}}

\* What the administrator's request does to the table and the roster, and
\* the counts it returns.
C11_request ==
    LET counts == DeadlineProcessingResult(pairing, now)
        changed == {i \in 1..Len(pairing) : pairing'[i] # pairing[i]}
    IN
    /\ Len(pairing') = Len(pairing)
    /\ \A i \in 1..Len(pairing) :
          pairing'[i] = IF i \in C11_due
                        THEN [pairing[i] EXCEPT !.result = C11_forfeit(pairing[i])]
                        ELSE pairing[i]
    /\ \A id \in DOMAIN roster :
          roster'[id] = credit(roster[id],
                               WinPoints * Cardinality(C11_won(id)),
                               Cardinality(C11_won(id)), 0,
                               Cardinality(C11_lost(id)), 0, 0)
    /\ changed = C11_due
    /\ counts.processed_count = Cardinality(changed)
    /\ counts.forfeits =
          Cardinality({i \in changed :
                          pairing'[i].result \in {WHITE_FORFEIT, BLACK_FORFEIT}})
    /\ counts.double_forfeits =
          Cardinality({i \in changed : pairing'[i].result = DOUBLE_FORFEIT})

\* What an automation pass does to the rows it did not resolve from a game.
C11_pass(found) ==
    LET detected == detect_all(roster, pairing, found).rows IN
    \A i \in 1..Len(pairing) :
        detected[i] = pairing[i] =>
            pairing'[i] = IF i \in C11_due
                          THEN [pairing[i] EXCEPT !.result = C11_forfeit(pairing[i])]
                          ELSE pairing[i]

C12_SweepIdempotent ==
    [][process_deadlines =>
          /\ swept(pairing', now') = pairing'
          /\ router_sweep_scores(roster', pairing', now') = roster'
          /\ DeadlineProcessingResult(pairing', now').processed_count = 0
          /\ \A i \in 1..Len(pairing) :
                pairing'[i] # pairing[i] =>
                    swept(pairing', now' + ClockStep)[i] = pairing'[i]]_vars

\* The sweep has resolved a pairing whose deadline had passed.
C12_Witness ==
    \E i \in 1..Len(pairing) :
        /\ pairing[i].result = DOUBLE_FORFEIT
        /\ pairing[i].deadline < now
        /\ roster[pairing[i].white_player_id].losses > 0

\* C12 as stated, the second run being at the same or at a later time: a
\* run on the result of a run processes no pairing and changes nothing.
C12_SecondRunAtAnyLaterTime ==
    LET rows == swept(pairing, now)
        entries == router_sweep_scores(roster, pairing, now)
    IN  \A time \in {now, now + ClockStep} :
            /\ swept(rows, time) = rows
            /\ router_sweep_scores(entries, rows, time) = entries
            /\ DeadlineProcessingResult(rows, time).processed_count = 0

\* The rows of the current round.
C13_current ==
    {i \in 1..Len(pairing) : pairing[i].round_number = tournament.current_round}

\* C13: current_round is incremented and pairings are created only when every
\* pairing of the current round has a terminal outcome: a step that does
\* either adds one to current_round, creates rows of that round only, and
\* leaves no pairing of the round before pending; an administrator's
\* generate-pairings request made while a pairing of the current round is
\* pending, and an automation pass that leaves one pending, change neither
\* current_round nor the set of pairings.
C13_RoundAdvancesWhenResolved ==
    [][/\ (\/ tournament'.current_round # tournament.current_round
           \/ Len(pairing') # Len(pairing)) =>
              /\ tournament'.current_round = tournament.current_round + 1
              /\ Len(pairing') >= Len(pairing)
              /\ \A i \in C13_current : pairing'[i].result # PENDING
              /\ \A i \in (Len(pairing) + 1)..Len(pairing') :
                    pairing'[i].round_number = tournament'.current_round
              /\ generate_pairings =>
                    \A i \in C13_current : pairing[i].result # PENDING
       /\ (\E i \in C13_current : pairing'[i].result = PENDING) =>
              /\ tournament'.current_round = tournament.current_round
              /\ Len(pairing') = Len(pairing)]_vars

\* The second round has been generated after the first was resolved.
C13_Witness ==
    /\ tournament.current_round = 2
    /\ \E i \in 1..Len(pairing) :
          pairing[i].round_number = 2 /\ pairing[i].result = PENDING
    /\ \E i \in 1..Len(pairing) :
          pairing[i].round_number = 1 /\ pairing[i].result = DOUBLE_FORFEIT

\* C14: a tournament whose status is completed has no pending pairing in
\* its final round, and every roster entry that is not withdrawn has a final
\* rank.
C14_CompletedIsResolvedAndRanked ==
    tournament.status = "completed" =>
        /\ ~round_pending(pairing, tournament.current_round)
        /\ \A id \in DOMAIN roster :
              ~roster[id].is_withdrawn => roster[id].final_rank # NoRank

\* The roster entries that are not withdrawn.
C15_ranked == {id \in DOMAIN roster : ~roster[id].is_withdrawn}

\* An automation pass that finalized the tournament.
C15_finalized ==
    /\ tournament.status = "active"
    /\ tournament'.status = "completed"
    /\ \E found \in 0..Len(pairing) : process_tournament(found)

\* C15: finalization over the N players that are not withdrawn gives each a
\* final rank of its own, and the ranks given are exactly 1..N.
C15_RanksArePermutation ==
    [][C15_finalized =>
          /\ {roster'[id].final_rank : id \in C15_ranked} =
                1..Cardinality(C15_ranked)
          /\ \A a, b \in C15_ranked :
                a # b => roster'[a].final_rank # roster'[b].final_rank]_vars

\* A finalized tournament in which two of four ranked players are level on
\* score, Buchholz, head-to-head and wins.
C15_Witness ==
    /\ tournament.status = "completed"
    /\ Cardinality(C15_ranked) = 4
    /\ \E a, b \in C15_ranked :
          /\ a # b
          /\ roster[a].final_rank # NoRank
          /\ roster[b].final_rank # NoRank
          /\ roster[a].score = roster[b].score
          /\ roster[a].buchholz = roster[b].buchholz
          /\ roster[a].wins = roster[b].wins
          /\ h2h(pairing, a, b) = 1

\* C16: a final rank, once assigned, is never changed by a later step, and
\* a tournament that has been finalized (it has ranked entries) is not
\* finalized again.
C16_FinalRankImmutable ==
    [][/\ \A id \in DOMAIN roster :
             roster[id].final_rank # NoRank =>
                 roster'[id].final_rank = roster[id].final_rank
       /\ (\E id \in DOMAIN roster : roster[id].final_rank # NoRank) =>
             ~C15_finalized]_vars

\* The points a player took from a pairing, in half points.
C17_points(p, id) ==
    IF p.result = DRAW THEN DrawPoints
    ELSE IF \/ p.result \in {WHITE_WINS, BLACK_FORFEIT} /\ p.white_player_id = id
            \/ p.result \in {BLACK_WINS, WHITE_FORFEIT} /\ p.black_player_id = id
    THEN WinPoints
    ELSE 0

\* Sonneborn-Berger: over the player's pairings with an opponent, the
\* opponent's score times the points taken from the pairing.
RECURSIVE C17_sonneborn_berger(_, _, _)
C17_sonneborn_berger(r, rows, id) ==
    IF rows = <<>> THEN 0
    ELSE LET p == rows[Len(rows)]
             before == C17_sonneborn_berger(r, SubSeq(rows, 1, Len(rows) - 1), id)
         IN  IF p.white_player_id = id /\ p.black_player_id # NoPlayer
             THEN before + r[p.black_player_id].score * C17_points(p, id)
             ELSE IF p.black_player_id = id /\ p.white_player_id # NoPlayer
             THEN before + r[p.white_player_id].score * C17_points(p, id)
             ELSE before

\* a precedes b: score, then Buchholz, then Sonneborn-Berger, then the
\* head-to-head winner, then wins.
C17_precedes(r, rows, a, b) ==
    IF r[a].score # r[b].score THEN r[a].score > r[b].score
    ELSE IF r[a].buchholz # r[b].buchholz THEN r[a].buchholz > r[b].buchholz
    ELSE IF C17_sonneborn_berger(r, rows, a) # C17_sonneborn_berger(r, rows, b)
    THEN C17_sonneborn_berger(r, rows, a) > C17_sonneborn_berger(r, rows, b)
    ELSE IF h2h(rows, a, b) = WinPoints THEN TRUE
    ELSE IF h2h(rows, a, b) = 0 THEN FALSE
    ELSE r[a].wins > r[b].wins

\* C17: finalization orders the players that are not withdrawn by score,
\* then Buchholz, then Sonneborn-Berger, then head-to-head, then wins: of two
\* players, the one that precedes under this comparison gets the smaller
\* final rank.
C17_RankFollowsTiebreaks ==
    [][C15_finalized =>
          \A a, b \in C15_ranked :
              C17_precedes(roster', pairing', a, b) =>
                  roster'[a].final_rank < roster'[b].final_rank]_vars

\* The opponents a player has faced in a pairing with two players.
C18_opponents(rows, id) ==
    {opp \in Entrants \ {id} :
        \E i \in 1..Len(rows) :
            {rows[i].white_player_id, rows[i].black_player_id} = {id, opp}}

\* The sum of the scores of a set of roster entries.
RECURSIVE C18_scores(_, _)
C18_scores(r, ids) ==
    IF ids = {} THEN 0
    ELSE LET id == CHOOSE x \in ids : TRUE
         IN  r[id].score + C18_scores(r, ids \ {id})

\* C18: at finalization the Buchholz of every ranked player is the sum of
\* the current scores of the opponents the player has faced, withdrawn
\* opponents included, byes contributing nothing.
C18_BuchholzIsOpponentsScores ==
    [][C15_finalized =>
          \A id \in C15_ranked :
              roster'[id].buchholz =
                  C18_scores(roster', C18_opponents(pairing', id))]_vars

\* C19: across the rounds of a tournament no two players meet in more than
\* one pairing with two players.
C19_NoRematch ==
    \A i, j \in 1..Len(pairing) :
        (/\ i < j
         /\ pairing[i].black_player_id # NoPlayer
         /\ pairing[j].black_player_id # NoPlayer) =>
            {pairing[i].white_player_id, pairing[i].black_player_id} #
                {pairing[j].white_player_id, pairing[j].black_player_id}

\* The rows a step has created.
C20_created == (Len(pairing) + 1)..Len(pairing')

\* The created rows with two players, in table order.
C20_boards ==
    SelectSeq([k \in 1..(Len(pairing') - Len(pairing)) |-> pairing'[Len(pairing) + k]],
              LAMBDA row : row.black_player_id # NoPlayer)

\* C20: in every generated round each player is in at most one pairing,
\* withdrawn players are in none, the pairings with two players carry the
\* board numbers 1..k in pairing order, and byes carry no board (board 0,
\* result bye).
C20_RoundWellFormed ==
    [][Len(pairing') > Len(pairing) =>
          /\ \A i, j \in C20_created :
                i # j =>
                    {pairing'[i].white_player_id, pairing'[i].black_player_id}
                    \cap {pairing'[j].white_player_id, pairing'[j].black_player_id}
                    \subseteq {NoPlayer}
          /\ \A i \in C20_created :
                /\ pairing'[i].white_player_id # pairing'[i].black_player_id
                /\ pairing'[i].white_player_id \in DOMAIN roster
                /\ ~roster[pairing'[i].white_player_id].is_withdrawn
                /\ pairing'[i].black_player_id # NoPlayer =>
                      /\ pairing'[i].black_player_id \in DOMAIN roster
                      /\ ~roster[pairing'[i].black_player_id].is_withdrawn
                /\ pairing'[i].black_player_id = NoPlayer =>
                      pairing'[i].board_number = 0 /\ pairing'[i].result = BYE
          /\ \A k \in 1..Len(C20_boards) : C20_boards[k].board_number = k]_vars

\* A round of three players generated after a withdrawal: one pairing on
\* board 1 and one bye, the withdrawn player in neither.
C20_Witness ==
    /\ tournament.current_round = 2
    /\ \E id \in DOMAIN roster :
          /\ roster[id].is_withdrawn
          /\ \E i \in 1..Len(pairing) :
                /\ pairing[i].round_number = 1
                /\ id \in {pairing[i].white_player_id, pairing[i].black_player_id}
          /\ \A i \in 1..Len(pairing) :
                pairing[i].round_number = 2 =>
                    id \notin {pairing[i].white_player_id, pairing[i].black_player_id}
    /\ \E i, j \in 1..Len(pairing) :
          /\ pairing[i].round_number = 2
          /\ pairing[i].board_number = 1
          /\ pairing[i].black_player_id # NoPlayer
          /\ pairing[j].round_number = 2
          /\ pairing[j].result = BYE

\* The players of the rows a step has created.
C21_placed ==
    {pairing'[i].white_player_id : i \in C20_created}
    \cup {pairing'[i].black_player_id : i \in C20_created}

\* C21: in every generated Swiss round every player that is not withdrawn
\* is in the round, in a game or with a bye.
C21_EveryActivePlayerPlaced ==
    [][(tournament.format = "swiss" /\ Len(pairing') > Len(pairing)) =>
          \A id \in DOMAIN roster :
              ~roster[id].is_withdrawn => id \in C21_placed]_vars

\* ============================================================ the engines
\* The engines as functions of their input.  In EnginesInputSpec roster is
\* the list of SwissPlayer objects an engine is constructed with, pairing
\* the list of SwissPairing objects the last call returned, and tournament
\* records which call that was.
MaxEntrants == 5

EntrantIds == <<"e1", "e2", "e3", "e4", "e5", "e6">>

RatingInputs == {1400, 1600}

\* A SwissPlayer before the first round.
SwissPlayer(id, rating) ==
    [id |-> id, score |-> 0, rating |-> rating, games_as_white |-> 0,
     games_as_black |-> 0, opponents |-> {}]

EnginesInit ==
    /\ now = 0
    /\ tournament = [format |-> "none", round_number |-> 0]
    /\ pairing = <<>>
    /\ \E n \in 1..MaxEntrants :
          \E ratings \in [1..n -> RatingInputs] :
             roster = [i \in 1..n |-> SwissPlayer(EntrantIds[i], ratings[i])]

\* SwissPairingEngine(players).generate_pairings(1)
call_generate_round_1_pairings ==
    /\ pairing' = swiss_generate_pairings(roster, 1)
    /\ tournament' = [format |-> "swiss", round_number |-> 1]
    /\ UNCHANGED <<now, roster>>

\* RoundRobinEngine(players).generate_round(round_number)
call_generate_round(round_number) ==
    /\ pairing' = generate_round(roster, round_number)
    /\ tournament' = [format |-> "round_robin", round_number |-> round_number]
    /\ UNCHANGED <<now, roster>>

EnginesNext ==
    \/ call_generate_round_1_pairings
    \/ \E round_number \in 1..(Len(roster) + 1) : call_generate_round(round_number)

EnginesInputSpec == EnginesInit /\ [][EnginesNext]_vars

\* The ratings of a set of list positions, highest first.
RECURSIVE C22_ratings_descending(_, _)
C22_ratings_descending(players, positions) ==
    IF positions = {} THEN <<>>
    ELSE LET top == CHOOSE i \in positions :
                        \A j \in positions : players[i].rating >= players[j].rating
         IN  <<players[top].rating>>
             \o C22_ratings_descending(players, positions \ {top})

C22_rating_of(players, id) ==
    players[CHOOSE i \in 1..Len(players) : players[i].id = id].rating

\* C22: Swiss round 1 over the players sorted by rating descending: with an
\* odd count the lowest-rated player has the bye; the remaining 2m players
\* are paired rank i of the top half (white) against rank i of the bottom
\* half (black) on board i.
C22_RoundOneTopAgainstBottom ==
    (tournament.format = "swiss" /\ tournament.round_number = 1) =>
        LET n == Len(roster)
            byes == {k \in 1..Len(pairing) : pairing[k].is_bye}
            boards == SelectSeq(pairing, LAMBDA sp : ~sp.is_bye)
            m == n \div 2
            resting == {i \in 1..n : \E k \in byes : pairing[k].white_id = roster[i].id}
            ranked == C22_ratings_descending(roster, (1..n) \ resting)
        IN  /\ Cardinality(byes) = n % 2
            /\ Cardinality(resting) = n % 2
            /\ \A k \in byes :
                  /\ pairing[k].black_id = NoPlayer
                  /\ \A i \in 1..n :
                        C22_rating_of(roster, pairing[k].white_id) <= roster[i].rating
            /\ Len(boards) = m
            /\ \A i \in 1..m :
                  /\ boards[i].board_number = i
                  /\ C22_rating_of(roster, boards[i].white_id) = ranked[i]
                  /\ C22_rating_of(roster, boards[i].black_id) = ranked[m + i]
            /\ \A i \in (1..n) \ resting :
                  Cardinality({k \in 1..m :
                                  roster[i].id \in {boards[k].white_id,
                                                    boards[k].black_id}}) = 1
            /\ (n = 2 /\ roster[1].rating = 1600 /\ roster[2].rating = 1400) =>
                  pairing = <<SwissPairing(roster[1].id, roster[2].id, 1, FALSE)>>

\* Round 1 of five players, three of them rated 1600: a bye and two boards.
C22_Witness ==
    /\ tournament.format = "swiss"
    /\ Len(roster) = 5
    /\ Cardinality({i \in 1..5 : roster[i].rating = 1600}) = 3
    /\ Len(pairing) = 3
    /\ \E k \in 1..3 : pairing[k].is_bye
    /\ \E k \in 1..3 : pairing[k].board_number = 2

\* The number of rows of a round in which a player appears.
C23_appearances(round, id) ==
    Cardinality({k \in 1..Len(round) : id \in {round[k].white_id, round[k].black_id}})

\* Every player of the list is in exactly one row of the round, and the
\* round has one bye when the list is odd and none otherwise.
C23_round_complete(players, round) ==
    /\ \A i \in 1..Len(players) : C23_appearances(round, players[i].id) = 1
    /\ Cardinality({k \in 1..Len(round) : round[k].is_bye}) = Len(players) % 2
    /\ \A k \in 1..Len(round) :
          round[k].is_bye <=> round[k].black_id = NoPlayer

\* The games of a schedule between two players.
C23_meetings(schedule, a, b) ==
    {rk \in (DOMAIN schedule) \X (1..MaxEntrants) :
        /\ rk[2] <= Len(schedule[rk[1]])
        /\ {schedule[rk[1]][rk[2]].white_id, schedule[rk[1]][rk[2]].black_id}
              = {a, b}}

\* C23: for a fixed list of n players the round-robin engine reports n-1
\* rounds when n is even and n when n is odd; in each of these rounds every
\* player appears exactly once, with one bye per round when n is odd; and
\* over the rounds every two players meet in exactly one game, n(n-1)/2
\* games in all.  The schedule of a list is examined in the state that
\* holds the list before any call, each generated round in the state after
\* its call.
C23_RoundRobinSchedule ==
    LET n == Len(roster)
        total == get_total_rounds(roster)
        ids == {roster[i].id : i \in 1..n}
        schedule == [k \in 1..total |-> generate_round(roster, k)]
    IN  /\ total = IF n % 2 = 0 THEN n - 1 ELSE n
        /\ (tournament.format = "round_robin" /\ tournament.round_number <= total) =>
              /\ pairing = schedule[tournament.round_number]
              /\ C23_round_complete(roster, pairing)
        /\ tournament.format = "none" =>
              /\ \A k \in 1..total : C23_round_complete(roster, schedule[k])
              /\ \A a, b \in ids :
                    a # b => Cardinality(C23_meetings(schedule, a, b)) = 1
              /\ Cardinality({rk \in (1..total) \X (1..n) :
                                 /\ rk[2] <= Len(schedule[rk[1]])
                                 /\ ~schedule[rk[1]][rk[2]].is_bye})
                    = (n * (n - 1)) \div 2

\* The fifth and last round of five players has been generated: two games
\* and a bye.
C23_Witness ==
    /\ tournament.format = "round_robin"
    /\ Len(roster) = 5
    /\ tournament.round_number = 5
    /\ get_total_rounds(roster) = 5
    /\ Cardinality({k \in 1..Len(pairing) : ~pairing[k].is_bye}) = 2
    /\ Cardinality({k \in 1..Len(pairing) : pairing[k].is_bye}) = 1

\* The sum of the scores of every roster entry, in half points.
C24_roster_points == C18_scores(roster, DOMAIN roster)

\* The pairings whose outcome awards a point: a win, a draw, a single
\* forfeit or a bye.
C24_scoring_rows ==
    {i \in 1..Len(pairing) :
        pairing[i].result \in {WHITE_WINS, BLACK_WINS, DRAW, WHITE_FORFEIT,
                               BLACK_FORFEIT, BYE}}

\* C24: the scores of the roster add up to one point for every pairing whose
\* current outcome is a win, a draw, a single forfeit or a bye; pending and
\* double-forfeit pairings contribute nothing.
C24_PointsMatchOutcomes ==
    C24_roster_points = WinPoints * Cardinality(C24_scoring_rows)

\* The increments the rule gives one side: <<score, wins, draws, losses,
\* own colour counter>>, for the white side or the black side.
C25_increments(res, white_side) ==
    CASE res = DRAW -> <<DrawPoints, 0, 1, 0, 1>>
      [] res = WHITE_WINS -> IF white_side THEN <<WinPoints, 1, 0, 0, 1>>
                             ELSE <<0, 0, 0, 1, 1>>
      [] res = BLACK_WINS -> IF white_side THEN <<0, 0, 0, 1, 1>>
                             ELSE <<WinPoints, 1, 0, 0, 1>>
      [] res = WHITE_FORFEIT -> IF white_side THEN <<0, 0, 0, 1, 0>>
                                ELSE <<WinPoints, 1, 0, 0, 0>>
      [] res = BLACK_FORFEIT -> IF white_side THEN <<WinPoints, 1, 0, 0, 0>>
                                ELSE <<0, 0, 0, 1, 0>>
      [] res = DOUBLE_FORFEIT -> <<0, 0, 0, 1, 0>>
      [] OTHER -> <<0, 0, 0, 0, 0>>

\* The roster after the rule has been applied for pairing p.
C25_rule(r, p) ==
    [pl \in DOMAIN r |->
        IF pl = p.white_player_id
        THEN LET d == C25_increments(p.result, TRUE) IN
             [r[pl] EXCEPT !.score = @ + d[1], !.wins = @ + d[2],
                           !.draws = @ + d[3], !.losses = @ + d[4],
                           !.games_as_white = @ + d[5]]
        ELSE IF pl = p.black_player_id
        THEN LET d == C25_increments(p.result, FALSE) IN
             [r[pl] EXCEPT !.score = @ + d[1], !.wins = @ + d[2],
                           !.draws = @ + d[3], !.losses = @ + d[4],
                           !.games_as_black = @ + d[5]]
        ELSE r[pl]]

C25_outcomes ==
    {WHITE_WINS, BLACK_WINS, DRAW, WHITE_FORFEIT, BLACK_FORFEIT, DOUBLE_FORFEIT}

\* C25: a score update changes the roster exactly by the rule, for the
\* outcome the pairing then has, and both implementations (the router's and
\* the automation's) give the rule's roster for each of the six outcomes.
C25_ScoreUpdateRule ==
    [][roster' # roster =>
          /\ roster' = C25_rule(roster, pairing')
          /\ \A res \in C25_outcomes :
                LET p == [pairing EXCEPT !.result = res] IN
                /\ router_update_player_scores(roster, p) = C25_rule(roster, p)
                /\ update_player_scores(roster, p) = C25_rule(roster, p)]_vars

\* A draw has been scored: half a point, a draw and a game with the own
\* colour for each side.
C25_Witness ==
    /\ pairing.result = DRAW
    /\ pairing.black_player_id # NoPlayer
    /\ roster[pairing.white_player_id] =
          [new_entry EXCEPT !.score = DrawPoints, !.draws = 1, !.games_as_white = 1]
    /\ roster[pairing.black_player_id] =
          [new_entry EXCEPT !.score = DrawPoints, !.draws = 1, !.games_as_black = 1]


\* ---------------------------------------------------------------------------
\* C26: a successful external auto-detection behaves like an administrative
\* override to the detected outcome: afterwards the outcome is set, the
\* outstanding claim fields are cleared, is_disputed is false and the score
\* update has been applied once, so that the pairing (in its outcome, claim
\* and dispute fields) and the roster equal what the override would have
\* produced from the same state.
C26_same_fields(p, q) ==
    /\ p.result = q.result
    /\ p.claimed_result = q.claimed_result
    /\ p.claimed_by = q.claimed_by
    /\ p.claimed_at = q.claimed_at
    /\ p.confirmation_deadline = q.confirmation_deadline
    /\ p.is_disputed = q.is_disputed

C26_detected(g) ==
    /\ auto_detect_game_result_status(pairing, g[1]) = "ok"
    /\ auto_detect_game_result(g[1], g[2], g[3], g[4])

C26_DetectionIsOverride ==
    [][\A g \in DetectInputs :
          LET overridden ==
                  admin_override_result_set(pairing, pairing'.result, Admin, now)
          IN  \/ /\ C26_same_fields(pairing', overridden)
                 /\ roster' = router_update_player_scores(roster, overridden)
              \/ ~C26_detected(g)]_vars


\* ---------------------------------------------------------------------------
\* C27: in every reachable state the pairing's claimed_result is set only if
\* the pairing's outcome is pending.
C27_ClaimOnlyWhilePending ==
    pairing.claimed_result # NoResult => pairing.result = PENDING

\* C27, as the code has it: a claimed_result is recorded only on a pairing
\* whose outcome is pending and stays pending in that step; once recorded
\* it is kept when the pairing is resolved, and a step that resolves the
\* pairing either keeps the claim fields or (the override) clears them.
C27_ClaimRecordedOnlyWhilePending ==
    [][/\ (/\ pairing'.claimed_result # pairing.claimed_result
           /\ pairing'.claimed_result # NoResult)
          => /\ pairing.result = PENDING
             /\ pairing'.result = PENDING
       /\ \A actor \in Actors :
             \/ /\ pairing'.claimed_result = pairing.claimed_result
                /\ pairing'.claimed_by = pairing.claimed_by
                /\ pairing'.claimed_at = pairing.claimed_at
                /\ pairing'.confirmation_deadline = pairing.confirmation_deadline
             \/ ~(/\ confirm_result_status(pairing, actor) = "ok"
                  /\ confirm_result(actor))]_vars

C27_Witness ==
    /\ pairing.result \in PlayedResults
    /\ pairing.claimed_result = pairing.result
    /\ pairing.claimed_by # NoPlayer
    /\ pairing.confirmed_by \in Players \ {pairing.claimed_by}

\* ---------------------------------------------------------------------------
\* C28: in every reachable state a pairing with is_disputed set carries a
\* recorded claim: claimed_result and claimed_by are both set.
C28_DisputeHasClaim ==
    pairing.is_disputed =>
        /\ pairing.claimed_result # NoResult
        /\ pairing.claimed_by # NoPlayer

C28_Witness ==
    /\ pairing.is_disputed
    /\ pairing.dispute_reason # NoReason
    /\ pairing.claimed_result # NoResult
    /\ pairing.claimed_by # NoPlayer


\* ---------------------------------------------------------------------------
\* The single pairing again, in a tournament created with the shortest
\* confirmation window the tournament schema admits, so that the clock can
\* pass a claim's confirmation_deadline.
MinConfirmationMinutes == 1

ShortWindowInit ==
    /\ now = 0
    /\ \E online \in BOOLEAN :
          tournament = [is_online |-> online, status |-> "active",
                        result_confirmation_minutes |-> MinConfirmationMinutes]
    /\ pairing \in {new_pairing("p1", "p2", FALSE, DeadlineAt),
                    new_pairing("p3", NoPlayer, TRUE, DeadlineAt)}
    /\ roster = [pl \in Players |->
                    IF pl = "p3" THEN credit(new_entry, WinPoints, 1, 0, 0, 0, 0)
                    ELSE new_entry]

ShortWindowSpec == ShortWindowInit /\ [][Next]_vars

\* ---------------------------------------------------------------------------
\* C29: a confirm is accepted only if it arrives no later than the claim's
\* confirmation_deadline (claim time plus result_confirmation_minutes); a
\* confirm attempted after that deadline is rejected and leaves the outcome
\* pending.
C29_accepted(actor) ==
    /\ confirm_result_status(pairing, actor) = "ok"
    /\ confirm_result(actor)

C29_ConfirmWithinDeadline ==
    [][\A actor \in Actors :
          \/ /\ pairing.confirmation_deadline =
                    pairing.claimed_at + tournament.result_confirmation_minutes
             /\ now <= pairing.confirmation_deadline
          \/ ~C29_accepted(actor)]_vars


\* ---------------------------------------------------------------------------
\* C30: deadline processing double-forfeits a pairing only when neither
\* player submitted anything for it: a pending pairing past its deadline
\* that carries a participant's result claim (confirmed or not, disputed or
\* not) is not turned into a double forfeit by either sweep.
C30_swept ==
    /\ pairing.result = PENDING
    /\ pairing'.result = DOUBLE_FORFEIT
    /\ process_expired_deadlines \/ automation_process_expired_deadlines

C30_NoDoubleForfeitOfClaimedPairing ==
    [][pairing.claimed_result = NoResult \/ ~C30_swept]_vars


\* ---------------------------------------------------------------------------
\* C31: while a pairing is pending the first participant to flag a no-show is
\* recorded as no_show_claimed_by with the time of the flag, and the outcome
\* stays pending with the scores unchanged; a repeated flag by the same
\* participant changes nothing; a later flag by the other participant is
\* rejected and never replaces the recorded claimer; a flag on a pairing that
\* is not pending, or by someone who is not in the pairing, is rejected.
C31_first_flag(actor) ==
    /\ actor \in {pairing.white_player_id, pairing.black_player_id}
    /\ pairing.result = PENDING
    /\ pairing.no_show_claimed_by = NoPlayer

C31_recorded(actor) ==
    /\ pairing'.no_show_claimed_by = actor
    /\ pairing'.no_show_claimed_at = now
    /\ pairing'.result = PENDING
    /\ pairing' = [pairing EXCEPT !.no_show_claimed_by = actor,
                                  !.no_show_claimed_at = now]

C31_NoShowFlag ==
    [][\A actor \in Actors :
          \/ /\ roster' = roster
             /\ IF C31_first_flag(actor) THEN C31_recorded(actor)
                ELSE pairing' = pairing
          \/ ~claim_opponent_no_show(actor)]_vars

C31_Witness ==
    /\ pairing.result = PENDING
    /\ pairing.no_show_claimed_by = "p2"
    /\ pairing.no_show_claimed_at = 1
    /\ claim_opponent_no_show_status(pairing, "p1") = "400 opponent claimed no-show"
    /\ claim_opponent_no_show_status(pairing, "p2") = "ok already claimed"
    /\ roster["p1"] = new_entry /\ roster["p2"] = new_entry


\* ===================================================== the automation cycle
\* run_automation_cycle beside the requests, on the single pairing.  The
\* cycle works in a database session of its own: tournament.cycle holds the
\* position of the cycle and the objects its session has loaded, pairing and
\* roster hold the committed rows.  A request is one transaction; the cycle
\* yields between its queries (the game lookup, the sleep between lookups),
\* loads each row once and commits once, at its end.
\* The session before the cycle has loaded anything: loaded and scored say
\* whether the pairing and the roster entries are in the session.
IdleCycle ==
    [pc |-> "idle",
     loaded |-> FALSE, pairing |-> new_pairing(NoPlayer, NoPlayer, TRUE, NoTime),
     scored |-> FALSE, roster |-> [pl \in Players |-> new_entry]]

\* The session holds a change that is not committed yet.
cycle_dirty(c) ==
    \/ c.scored
    \/ c.loaded /\ c.pairing.result # PENDING

\* run_automation_cycle selects the active tournaments, process_tournament
\* the pending pairings of the tournament.
cycle_select_pending ==
    /\ tournament.cycle.pc = "idle"
    /\ tournament.status = "active"
    /\ tournament' =
          [tournament EXCEPT !.cycle =
              IF pairing.result = PENDING
              THEN [IdleCycle EXCEPT !.pc = "detect", !.loaded = TRUE,
                                     !.pairing = pairing]
              ELSE [IdleCycle EXCEPT !.pc = "detect"]]
    /\ UNCHANGED <<now, pairing, roster>>

\* auto_detect_game_result on the loaded pairing.  failure names the place
\* where the call raises: "lookup" in find_game_between_players, "played_at"
\* in the conversion of the game's end_time, after the result is assigned;
\* both are caught by the function's except clause.
cycle_auto_detect_game_result(failure, found, same_colors, white_result, black_result) ==
    LET c == tournament.cycle
        res == detected_result(same_colors, white_result, black_result)
        detected == auto_detect_game_result_set(c.pairing, res)
    IN
    /\ c.pc = "detect"
    /\ tournament' =
          [tournament EXCEPT !.cycle =
              IF ~c.loaded THEN [c EXCEPT !.pc = "sweep"]
              ELSE IF auto_detect_game_result_status(c.pairing, TRUE) # "ok"
              THEN [c EXCEPT !.pc = "sweep"]
              ELSE IF failure = "lookup" \/ ~found
              THEN [c EXCEPT !.pc = "sweep"]
              ELSE IF failure = "played_at"
              THEN [c EXCEPT !.pc = "sweep", !.pairing = detected]
              ELSE [c EXCEPT !.pc = "sweep", !.pairing = detected,
                             !.scored = TRUE,
                             !.roster = update_player_scores(roster, detected)]]
    /\ UNCHANGED <<now, pairing, roster>>

\* process_expired_deadlines in the cycle's session: the query sees the
\* committed row with the session's own change; a row the session has
\* loaded before is the loaded object.
cycle_process_expired_deadlines ==
    LET c == tournament.cycle
        row == IF c.loaded /\ c.pairing.result # PENDING
               THEN [pairing EXCEPT !.result = c.pairing.result]
               ELSE pairing
        object == IF c.loaded THEN c.pairing ELSE pairing
        resolved == deadline_set(object)
    IN
    /\ c.pc = "sweep"
    /\ tournament' =
          [tournament EXCEPT !.cycle =
              IF expired(row, now)
              THEN [pc |-> "commit", loaded |-> TRUE, pairing |-> resolved,
                    scored |-> TRUE,
                    roster |-> update_player_scores(roster, resolved)]
              ELSE [c EXCEPT !.pc = "commit"]]
    /\ UNCHANGED <<now, pairing, roster>>

\* db.commit(): the columns the session changed are written.
cycle_commit ==
    LET c == tournament.cycle IN
    /\ c.pc = "commit"
    /\ pairing' = IF c.loaded /\ c.pairing.result # PENDING
                  THEN [pairing EXCEPT !.result = c.pairing.result]
                  ELSE pairing
    /\ roster' = IF c.scored THEN c.roster ELSE roster
    /\ tournament' = [tournament EXCEPT !.cycle = IdleCycle]
    /\ UNCHANGED now

\* A cancellation handled as an error of the tournament's pass: caught, and
\* the cycle goes on to commit.
cycle_cancel_caught ==
    LET c == tournament.cycle IN
    /\ c.pc # "idle"
    /\ pairing' = IF c.loaded /\ c.pairing.result # PENDING
                  THEN [pairing EXCEPT !.result = c.pairing.result]
                  ELSE pairing
    /\ roster' = IF c.scored THEN c.roster ELSE roster
    /\ tournament' = [tournament EXCEPT !.cycle = IdleCycle]
    /\ UNCHANGED now

\* stop_tournament_automation cancels the task inside a cycle: the
\* CancelledError passes the except Exception clauses and the session is
\* closed without a commit.
cycle_cancel ==
    /\ tournament.cycle.pc # "idle"
    /\ tournament' = [tournament EXCEPT !.cycle = IdleCycle]
    /\ UNCHANGED <<now, pairing, roster>>

CycleInit ==
    /\ now = 0
    /\ tournament = [is_online |-> FALSE, status |-> "active",
                     result_confirmation_minutes |-> ConfirmationMinutes,
                     cycle |-> IdleCycle]
    /\ pairing = new_pairing("p1", "p2", FALSE, DeadlineAt)
    /\ roster = [pl \in Players |->
                    IF pl = "p3" THEN credit(new_entry, WinPoints, 1, 0, 0, 0, 0)
                    ELSE new_entry]

\* <<failure, found, same_colors, white_result, black_result>>
CycleLookups ==
    {<<"none", FALSE, TRUE, "other", "other">>,
     <<"lookup", TRUE, TRUE, "win", "other">>,
     <<"none", TRUE, TRUE, "win", "other">>,
     <<"played_at", TRUE, TRUE, "other", "win">>}

\* A request commits only while the cycle's session holds no change.
CycleNext ==
    \/ cycle_select_pending
    \/ \E g \in CycleLookups :
          cycle_auto_detect_game_result(g[1], g[2], g[3], g[4], g[5])
    \/ cycle_process_expired_deadlines
    \/ cycle_commit /\ within_bound(roster')
    \/ cycle_cancel
    \/ /\ ~cycle_dirty(tournament.cycle)
       /\ \E actor \in Players : claim_result(actor, WHITE_WINS)
    \/ /\ ~cycle_dirty(tournament.cycle)
       /\ \E actor \in Players : confirm_result(actor)
    \/ /\ ~cycle_dirty(tournament.cycle)
       /\ \E actor \in Players : claim_opponent_no_show(actor)
    \/ /\ ~cycle_dirty(tournament.cycle)
       /\ admin_override_result(BLACK_WINS)
       /\ within_bound(roster')
    \/ tick

CycleSpec == CycleInit /\ [][CycleNext]_vars


\* ---------------------------------------------------------------------------
\* C32: when a confirm (or an override) and the automation's detection or
\* deadline processing act on the same pending pairing concurrently, the
\* pairing's mutations are serialized: exactly one of them resolves the
\* pairing and the roster entries are scored once.  The cycle never commits
\* a score update for a pairing that is no longer pending in the database,
\* and no player of the pairing ends up with more than one recorded game.
C32_results(tp) == tp.wins + tp.draws + tp.losses

C32_Serialized ==
    [][\/ ~tournament.cycle.scored
       \/ /\ pairing.result = PENDING
          /\ \A pl \in {pairing.white_player_id, pairing.black_player_id} :
                C32_results(roster'[pl]) = 1
       \/ ~cycle_commit]_vars


\* ---------------------------------------------------------------------------
\* C36: every transition is all-or-nothing: whatever fails during a cycle,
\* the commit of the cycle never persists a terminal outcome of the pairing
\* without its score update, nor a score update without the outcome; that
\* includes a failure that is caught, after which the cycle goes on to commit.
C36_AllOrNothing ==
    [][\/ (pairing'.result # pairing.result) <=> (roster' # roster)
       \/ ~cycle_commit]_vars


\* ---------------------------------------------------------------------------
\* C37: if the automation task is cancelled inside a cycle, none of that
\* cycle's pairing or roster changes are persisted, and the session is
\* discarded, so that a full cycle run afterwards starts from the committed
\* rows as if the interrupted cycle had never started.  Until its commit a
\* cycle writes nothing to the committed rows.
C37_CancelPersistsNothing ==
    [][/\ \/ /\ pairing' = pairing
             /\ roster' = roster
             /\ tournament' = [tournament EXCEPT !.cycle = IdleCycle]
          \/ ~cycle_cancel
       /\ \/ tournament'.cycle = tournament.cycle
          \/ pairing' = pairing /\ roster' = roster
          \/ cycle_commit]_vars

\* A cycle that can be cancelled while its session holds a resolved and
\* scored pairing that is still pending in the database.
C37_Witness ==
    /\ tournament.cycle.pc = "commit"
    /\ tournament.cycle.scored
    /\ tournament.cycle.pairing.result = DOUBLE_FORFEIT
    /\ pairing.result = PENDING
    /\ roster["p1"] = new_entry


\* ============================================= the cycle and round generation
\* run_automation_cycle beside the administrator's generate-pairings request,
\* on the table of a tournament.  tournament.cycle holds the position of the
\* cycle and the Tournament object its session loaded when the cycle began;
\* the pass reads the pairings and the roster entries when it runs, and the
\* tournament's fields from the loaded object.
loaded_tournament(t) ==
    [status |-> t.status, current_round |-> t.current_round,
     total_rounds |-> t.total_rounds, format |-> t.format]

NoCycle ==
    [pc |-> "idle",
     tournament |-> [status |-> "none", current_round |-> 0,
                     total_rounds |-> 0, format |-> "none"]]

\* run_automation_cycle selects the active tournaments.
cycle_select_tournaments ==
    /\ tournament.cycle.pc = "idle"
    /\ tournament.status = "active"
    /\ tournament' = [tournament EXCEPT !.cycle =
                         [pc |-> "pass",
                          tournament |-> loaded_tournament(tournament)]]
    /\ UNCHANGED <<now, pairing, roster>>

\* process_tournament on the loaded object, and the commit of the cycle:
\* the columns of the tournament that the pass changed are written.
cycle_process_tournament(found) ==
    LET t == tournament.cycle.tournament
        detected == detect_all(roster, pairing, found)
        rows2 == swept(detected.rows, now)
        roster2 == sweep_scores(detected.roster, detected.rows, now)
        next == generate_next_round(t, roster2, rows2, now)
        final == finalize_tournament(t, roster2, rows2)
        complete == check_round_complete(t, rows2)
        last == t.current_round >= t.total_rounds
    IN
    /\ tournament.cycle.pc = "pass"
    /\ UNCHANGED now
    /\ pairing' = IF complete /\ ~last THEN next.rows ELSE rows2
    /\ roster' = IF ~complete THEN roster2
                 ELSE IF last THEN final.roster ELSE next.roster
    /\ tournament' =
          [tournament EXCEPT
              !.cycle = NoCycle,
              !.status = IF complete /\ last THEN final.tournament.status ELSE @,
              !.current_round =
                  IF complete /\ ~last /\ next.done
                  THEN next.tournament.current_round ELSE @]

GenerateRaceInit ==
    /\ now = 0
    /\ tournament = [status |-> "registration", current_round |-> 0,
                     total_rounds |-> 3, format |-> "swiss", cycle |-> NoCycle]
    /\ pairing = <<>>
    /\ roster = [id \in Players |-> new_tournament_player(seed_ratings[id])]

GenerateRaceNext ==
    \/ generate_pairings
    \/ cycle_select_tournaments
    \/ cycle_process_tournament(0)
    \/ \E i \in regular_rows, res \in EngineUpdateInputs :
          update_result_of(i, Admin, res)

GenerateRaceSpec == GenerateRaceInit /\ [][GenerateRaceNext]_vars

\* ---------------------------------------------------------------------------
\* C33: when the administrator's generate-pairings request and the automation
\* pass's next-round generation run concurrently for a tournament whose
\* current round is complete, the next round is generated once: current_round
\* increases by exactly 1, and in the new round each player has at most one
\* pairing and at most one bye award.
C33_rows_of(id, round) ==
    {i \in 1..Len(pairing) :
        /\ pairing[i].round_number = round
        /\ id \in {pairing[i].white_player_id, pairing[i].black_player_id}}

C33_byes(id) ==
    Cardinality({i \in 1..Len(pairing) :
                    pairing[i].result = BYE /\ pairing[i].white_player_id = id})

C33_RoundGeneratedOnce ==
    /\ \A id \in DOMAIN roster :
          \A round \in 1..tournament.total_rounds :
             Cardinality(C33_rows_of(id, round)) <= 1
    /\ \A i \in 1..Len(pairing) :
          pairing[i].round_number \in 1..tournament.current_round


\* ================================================ the automation on its own
\* A tournament that the administrator only starts: after the first round is
\* generated the pairings change by the players' requests and by the
\* automation's passes alone.  The clock moves on as long as a pending
\* pairing has a deadline that has not passed; the passes keep coming
\* (tournament_automation_loop) and the time keeps advancing.
hours_pass_deadlines ==
    /\ \E i \in 1..Len(pairing) :
          /\ pairing[i].result = PENDING
          /\ pairing[i].deadline # NoTime
          /\ pairing[i].deadline >= now
    /\ now' = now + ClockStep
    /\ UNCHANGED <<tournament, pairing, roster>>

AutomationNext ==
    \/ tournament.status = "registration" /\ generate_pairings
    \/ process_tournament(0)
    \/ \E i \in regular_rows :
          \E actor \in {pairing[i].white_player_id, pairing[i].black_player_id} :
             no_show_of(i, actor)
    \/ \E player \in Players : withdraw_from_tournament(player)
    \/ hours_pass_deadlines

\* What the pass of process_tournament(0) would leave behind in this state.
pass_outcome ==
    LET detected == detect_all(roster, pairing, 0)
        rows2 == swept(detected.rows, now)
        roster2 == sweep_scores(detected.roster, detected.rows, now)
        next == generate_next_round(tournament, roster2, rows2, now)
        final == finalize_tournament(tournament, roster2, rows2)
    IN  IF ~check_round_complete(tournament, rows2)
        THEN <<tournament, rows2, roster2>>
        ELSE IF tournament.current_round >= tournament.total_rounds
        THEN <<final.tournament, rows2, final.roster>>
        ELSE <<next.tournament, next.rows, next.roster>>

\* The loop never stops: a pass that has something to do is run.  This is
\* weak fairness of process_tournament(0), its enabling condition written
\* out as the state predicate "the pass would change a row".
AutomationSpec ==
    /\ RoundsInit
    /\ [][AutomationNext]_vars
    /\ \/ []<>(~(tournament.status = "active"
                  /\ pass_outcome # <<tournament, pairing, roster>>))
       \/ []<><<process_tournament(0)>>_vars
    /\ WF_vars(hours_pass_deadlines)

\* ---------------------------------------------------------------------------
\* C34: for an active tournament with current_round >= 1, if automation
\* cycles keep running and time advances past every pairing deadline, the
\* tournament eventually reaches status completed with final ranks assigned,
\* without any administrator action, whatever no-show flags or withdrawals
\* the players make along the way.
C34_EventuallyCompleted ==
    (tournament.status = "active" /\ tournament.current_round >= 1)
        ~> (/\ tournament.status = "completed"
            /\ \A id \in DOMAIN roster :
                  ~roster[id].is_withdrawn => roster[id].final_rank # NoRank)


\* ================================================= the lookups of one pass
\* A pass in which the lookup of every pending pairing has its own outcome:
\* "none" (no game found), "raises" (the request failed or timed out) or
\* "win" (a game that white won with the pairing's colours).
LookupOutcomes == {"none", "raises", "win"}

pending_rows == {i \in 1..Len(pairing) : pairing[i].result = PENDING}

\* The loop over pending_pairings that gives up at the first lookup that
\* raises, as it would without the try/except of auto_detect_game_result.
RECURSIVE detect_each_until_raise(_, _, _, _)
detect_each_until_raise(i, r, rows, outcome) ==
    IF i > Len(rows) \/ (i \in DOMAIN outcome /\ outcome[i] = "raises")
    THEN [rows |-> rows, roster |-> r]
    ELSE IF /\ i \in DOMAIN outcome
            /\ outcome[i] = "win"
            /\ auto_detect_game_result_status(rows[i], TRUE) = "ok"
    THEN LET detected ==
                auto_detect_game_result_set(rows[i],
                                            detected_result(TRUE, "win", "other"))
         IN  detect_each_until_raise(i + 1, update_player_scores(r, detected),
                                     [rows EXCEPT ![i] = detected], outcome)
    ELSE detect_each_until_raise(i + 1, r, rows, outcome)

\* for pairing in pending_pairings: await auto_detect_game_result(db, pairing)
\* from row i on; a lookup that raises is caught inside and returns False.
RECURSIVE detect_each(_, _, _, _)
detect_each(i, r, rows, outcome) ==
    IF i > Len(rows)
    THEN [rows |-> rows, roster |-> r]
    ELSE IF /\ i \in DOMAIN outcome
            /\ outcome[i] = "win"
            /\ auto_detect_game_result_status(rows[i], TRUE) = "ok"
    THEN LET detected ==
                auto_detect_game_result_set(rows[i],
                                            detected_result(TRUE, "win", "other"))
         IN  detect_each(i + 1, update_player_scores(r, detected),
                         [rows EXCEPT ![i] = detected], outcome)
    ELSE detect_each(i + 1, r, rows, outcome)

\* process_tournament with the outcome of each lookup given.
process_tournament_lookups(outcome) ==
    LET detected == detect_each(1, roster, pairing, outcome)
        rows2 == swept(detected.rows, now)
        roster2 == sweep_scores(detected.roster, detected.rows, now)
        next == generate_next_round(tournament, roster2, rows2, now)
        final == finalize_tournament(tournament, roster2, rows2)
    IN
    /\ tournament.status = "active"
    /\ UNCHANGED now
    /\ IF ~check_round_complete(tournament, rows2)
       THEN /\ pairing' = rows2
            /\ roster' = roster2
            /\ UNCHANGED tournament
       ELSE IF tournament.current_round >= tournament.total_rounds
       THEN /\ pairing' = rows2
            /\ roster' = final.roster
            /\ tournament' = final.tournament
       ELSE /\ pairing' = next.rows
            /\ roster' = next.roster
            /\ tournament' = next.tournament

LookupNext ==
    \/ tournament.status = "registration" /\ generate_pairings
    \/ \E outcome \in [pending_rows -> LookupOutcomes] :
          process_tournament_lookups(outcome)
    \/ hours_pass_deadlines

LookupSpec == EngineInit /\ [][LookupNext]_vars

\* ---------------------------------------------------------------------------
\* C35: when the lookup raises for one pending pairing, the pass leaves that
\* pairing as it was (until the deadline step, which treats it like any
\* pending pairing), still records the game found for every other pending
\* pairing, then forfeits what is past its deadline and then acts on a
\* completed round.
C35_failed(outcome) == {i \in pending_rows : outcome[i] = "raises"}

C35_LookupFailureIsolated ==
    [][\A outcome \in [pending_rows -> LookupOutcomes] :
          \/ C35_failed(outcome) = {}
          \/ ~process_tournament_lookups(outcome)
          \/ /\ \A i \in pending_rows :
                   /\ outcome[i] = "raises" /\ ~(pairing[i].deadline < now)
                         => pairing'[i] = pairing[i]
                   /\ outcome[i] = "win" => pairing'[i].result = WHITE_WINS
                   /\ outcome[i] # "win" /\ pairing[i].deadline < now
                         => pairing'[i].result \in
                               {WHITE_FORFEIT, BLACK_FORFEIT, DOUBLE_FORFEIT}
             /\ \A pl \in DOMAIN roster :
                   roster'[pl].wins >= roster[pl].wins +
                       Cardinality({i \in pending_rows :
                                       /\ outcome[i] = "win"
                                       /\ pairing[i].white_player_id = pl})
             /\ (\A i \in pending_rows :
                    outcome[i] = "win" \/ pairing[i].deadline < now)
                   => \/ tournament'.current_round = tournament.current_round + 1
                      \/ tournament'.status = "completed"]_vars

\* A pass has run in which the lookup of the first board found nothing or
\* failed and the game of a later board was still recorded.
C35_Witness ==
    \E i, j \in 1..Len(pairing) :
       /\ i < j
       /\ pairing[i].round_number = pairing[j].round_number
       /\ pairing[i].result = PENDING
       /\ pairing[j].result = WHITE_WINS


\* ==================================================== the scheduler's task
\* start_tournament_automation and stop_tournament_automation beside the
\* task they create.  Here pairing is the list of asyncio tasks created so
\* far, each with its position in tournament_automation_loop, the
\* cancellation requested for it (Task.cancel() only requests: the
\* CancelledError is thrown into the coroutine when the event loop next runs
\* the task, and done() is false until then) and the cycles it has run;
\* tournament holds the module's global _automation_task (0: None) and the
\* last call made; now counts the calls.
MaxCalls == 4
MaxCycles == 2

new_task == [pc |-> "created", must_cancel |-> FALSE, cycles |-> 0]

done(task) == task.pc = "cancelled"

start_tournament_automation ==
    /\ now < MaxCalls
    /\ now' = now + 1
    /\ IF \/ tournament.automation_task = 0
          \/ done(pairing[tournament.automation_task])
       THEN /\ pairing' = Append(pairing, new_task)
            /\ tournament' = [automation_task |-> Len(pairing) + 1,
                              last_call |-> "start"]
       ELSE /\ tournament' = [tournament EXCEPT !.last_call = "start"]
            /\ UNCHANGED pairing
    /\ UNCHANGED roster

stop_tournament_automation ==
    /\ now < MaxCalls
    /\ now' = now + 1
    /\ tournament' = [tournament EXCEPT !.last_call = "stop"]
    /\ IF /\ tournament.automation_task # 0
          /\ ~done(pairing[tournament.automation_task])
       THEN pairing' = [pairing EXCEPT
                           ![tournament.automation_task].must_cancel = TRUE]
       ELSE UNCHANGED pairing
    /\ UNCHANGED roster

\* The event loop runs task i up to its next await.  CancelledError is not an
\* Exception: neither except clause of the loop catches it.
tournament_automation_loop(i) ==
    /\ ~done(pairing[i])
    /\ IF pairing[i].must_cancel
       THEN pairing' = [pairing EXCEPT ![i].pc = "cancelled"]
       ELSE CASE pairing[i].pc = "created" ->
                    pairing' = [pairing EXCEPT ![i].pc = "sleep_30"]
              [] pairing[i].pc \in {"sleep_30", "sleep_interval"} ->
                    /\ pairing[i].cycles < MaxCycles
                    /\ pairing' = [pairing EXCEPT ![i].pc = "run_automation_cycle"]
              [] pairing[i].pc = "run_automation_cycle" ->
                    pairing' = [pairing EXCEPT
                                   ![i].pc = "sleep_interval",
                                   ![i].cycles = pairing[i].cycles + 1]
    /\ UNCHANGED <<now, tournament, roster>>

SchedulerInit ==
    /\ now = 0
    /\ tournament = [automation_task |-> 0, last_call |-> "none"]
    /\ pairing = <<>>
    /\ roster = <<>>

SchedulerNext ==
    \/ start_tournament_automation
    \/ stop_tournament_automation
    \/ \E i \in 1..Len(pairing) : tournament_automation_loop(i)

SchedulerSpec == SchedulerInit /\ [][SchedulerNext]_vars

\* The loops that are running: not cancelled and with no cancellation
\* pending.
live_loops == {i \in 1..Len(pairing) : ~done(pairing[i]) /\ ~pairing[i].must_cancel}

\* ---------------------------------------------------------------------------
\* C38: after a sequence of start and stop calls that ends with a start call,
\* exactly one automation loop is running, neither cancelled nor pending
\* cancellation.
C38_OneLiveLoopAfterStart ==
    tournament.last_call = "start" => Cardinality(live_loops) = 1


\* The games of a schedule in which a player has the given side.
C40_games(schedule, id, side) ==
    {rk \in (DOMAIN schedule) \X (1..MaxEntrants) :
        /\ rk[2] <= Len(schedule[rk[1]])
        /\ ~schedule[rk[1]][rk[2]].is_bye
        /\ id = IF side = "white" THEN schedule[rk[1]][rk[2]].white_id
                ELSE schedule[rk[1]][rk[2]].black_id}

\* ---------------------------------------------------------------------------
\* C40: over all rounds of the round-robin schedule of a list of players, no
\* player's number of games as white differs from their number of games as
\* black by more than 1.
C40_ColoursBalancedOverSchedule ==
    LET schedule == [k \in 1..get_total_rounds(roster) |-> generate_round(roster, k)]
    IN  \A i \in 1..Len(roster) :
           Cardinality(C40_games(schedule, roster[i].id, "white"))
             - Cardinality(C40_games(schedule, roster[i].id, "black")) \in -1..1


\* ---------------------------------------------------------------------------
\* C39: in a Swiss round >= 2, in each generated pair, a player with more
\* whites than blacks does not get white against an opponent without more
\* whites than blacks, a player with more blacks than whites does not get
\* black against an opponent without more blacks than whites, and with equal
\* imbalance the higher-rated player has white.  The counters are those of
\* the roster the round is generated from.
C39_ColoursFollowBalance ==
    [][(/\ tournament.format = "swiss"
        /\ tournament'.current_round >= 2
        /\ tournament'.current_round = tournament.current_round + 1)
          => \A k \in (Len(pairing) + 1)..Len(pairing') :
                pairing'[k].black_player_id # NoPlayer =>
                    LET white == roster[pairing'[k].white_player_id]
                        black == roster[pairing'[k].black_player_id]
                    IN  /\ ~(needs_black(white) /\ ~needs_black(black))
                        /\ ~(needs_white(black) /\ ~needs_white(white))
                        /\ color_balance(white) = color_balance(black)
                              => white.seed_rating >= black.seed_rating]_vars

\* The current round, the second or a later one, has a pairing not yet played
\* in which the lower-rated player has white because of the colour history,
\* and one in which both players have the same imbalance and different
\* ratings.
C39_Witness ==
    /\ tournament.format = "swiss"
    /\ tournament.current_round >= 2
    /\ \E k \in 1..Len(pairing) :
          /\ pairing[k].round_number = tournament.current_round
          /\ pairing[k].result = PENDING
          /\ roster[pairing[k].white_player_id].seed_rating
                < roster[pairing[k].black_player_id].seed_rating
          /\ needs_white(roster[pairing[k].white_player_id])
    /\ \E k \in 1..Len(pairing) :
          /\ pairing[k].round_number = tournament.current_round
          /\ pairing[k].result = PENDING
          /\ color_balance(roster[pairing[k].white_player_id])
                = color_balance(roster[pairing[k].black_player_id])
          /\ roster[pairing[k].white_player_id].seed_rating
                > roster[pairing[k].black_player_id].seed_rating

====
